---- MODULE Spec2Model ----
(***************************************************************************)
(* Model of the request layer of the SharePoint & OneDrive sharing         *)
(* scanner: the Graph request gateway (graphRequestWithRetry), the token   *)
(* refresh it calls (refreshTokenIfNeeded), the bounded-concurrency        *)
(* RequestQueue and the batch permission fetcher (batchGetPermissions).    *)
(*                                                                         *)
(* Time is counted in ticks of 100 ms: Date.now() is the variable now, a   *)
(* setTimeout(f, ms) is a timer due at now + ms/100.                       *)
(***************************************************************************)
EXTENDS Integers, Sequences, FiniteSets, Bags, TLC

VARIABLES
    now,            \* Date.now(), in ticks of 100 ms
    throttle,       \* globalThrottleState {isThrottled, resumeTime}
    auth,           \* the auth module: account, accessToken, tokenFresh, tokenRefreshInProgress
    calls,          \* one graphRequestWithRetry activation per caller id
    budget,         \* non-2xx answers the remote side may still give (bounds the run)
    queue,          \* RequestQueue.queue: the ids of the units waiting, oldest first
    running,        \* RequestQueue.running
    unit,           \* per unit: new | queued | running | resolved | rejected
    timers,         \* the pending setTimeout(() => this.process(), ...) callbacks
    admitted,       \* history: the ids of the units in the order process() started them
    lastDone,       \* history: the time of the latest completion
    lastAdmit,      \* history: the latest admission (unit, caller of process, units left waiting)
    requests,       \* batchGetPermissions: the number of requests; request k is for item k
    controller,     \* the scan controller {stop}
    results,        \* batchGetPermissions: the entries pushed so far
    bgp,            \* batchGetPermissions: where the activation is (pc, i, j)
    bhist,          \* history of the activation
    permission,     \* classification: the grant under examination
    tenantDomains,  \* classification: the tenant domain set
    sharingFilter,  \* classification: scanSettings.sharingFilter
    verdict,        \* classification: what the two functions returned
    container,      \* scan: the items of the drive being scanned
    scanSettings,   \* scan: contentScope and the exclude-preservation-holds checkbox
    scan,           \* scan: where scanDriveWithDelta is (pc, k)
    walk,           \* scan: one traverseFolderEnhanced activation per folder
    found,          \* scan: configModule.results, the ScanResults pushed so far
    shist,          \* scan: history of the run
    listing,        \* one paginated listing: a graphGetAll or performDeltaQuery activation
    orch,           \* the orchestrator: configModule.scanning and the scan function's activation
    path,           \* path formatting: the arguments and what the two syntheses returned
    run,            \* scan runs: the number of the run, and whether the run before it ended stopped
    domainLoad      \* loadTenantDomains: the directory's answer, the account, and the set returned

gvars == <<now, throttle, auth, calls, budget>>

qvars == <<queue, running, unit, timers, admitted, lastDone, lastAdmit>>

bvars == <<requests, controller, results, bgp, bhist>>

cvars == <<permission, tenantDomains, sharingFilter, verdict>>

svars == <<container, scanSettings, scan, walk, found, shist>>

\* What the scan of one drive never touches.
evars == <<listing, orch, path, run, domainLoad>>

\* What the gateway, the queue and batchGetPermissions never touch.
ovars == <<cvars, svars, evars>>

vars == <<gvars, qvars, bvars, ovars>>

(***************************************************************************)
(* Bounds of the model.                                                    *)
(***************************************************************************)
\* Largest maxRetries a caller passes (the default is 3, auth.js passes 1).
MaxRetriesBound == 3
\* Largest Retry-After header value, in seconds.
MaxRetryAfter == 1
\* Largest jitter (Math.random() * 1000 ms) in ticks; the code allows up to 9.
MaxJitter == 1
\* Horizon of the clock.
MaxTime == 200
\* Concurrent direct callers of the gateway.
NCalls == 2
\* Non-2xx answers and network errors in one run of the gateway specification.
MaxFaults == 5
\* Units submitted to the RequestQueue in one run.
MaxUnits == 7
\* Failing units in one run of the queue specification.
MaxQueueFaults == 1
\* Units submitted in one run of the throttling specification.
MaxThrottleUnits == 3
\* 429 and 503 answers in one run of the throttling specification.
MaxThrottleFaults == 1
\* Units submitted in one run of the overlapping-windows specification.
MaxWindowUnits == 3
\* 429 and 503 answers in one run of the overlapping-windows specification.
MaxWindowFaults == 2
\* Units submitted in one run of the progress specification.
MaxLiveUnits == 3
\* 429 and 503 answers in one run of the progress specification.
MaxLiveFaults == 1
\* Entries of grantedToIdentitiesV2.
MaxIdentities == 2
\* Requests given to batchGetPermissions.
MaxRequests == 17
\* Failing sub-responses, malformed batch answers and failing individual
\* requests in one run of batchGetPermissions.
MaxBatchFaults == 2

(***************************************************************************)
(* Program constants.                                                      *)
(***************************************************************************)
\* 1000 ms in ticks: the unit of Retry-After and of the backoff.
Second == 10
\* new RequestQueue(6, 200): the shared queue.
maxConcurrent == 6
\* 200 ms in ticks.
delayBetweenRequests == 2
\* The default maxRetries of graphRequestWithRetry.
DefaultMaxRetries == 3
\* batchGetPermissions: the size of a group.
batchSize == 15

(***************************************************************************)
(* The remote side's answers to one fetch.  "neterr" is a fetch that       *)
(* throws; "501ns" is a 501 whose body carries notSupported / Permission   *)
(* is not supported; "404np" is a 404 whose body carries mysite not found  *)
(* / ResourceNotFound; "429ra" and "503ra" carry a Retry-After header.     *)
(***************************************************************************)
Throttled == {"429", "429ra", "503", "503ra"}

Kinds == {"200", "401", "404", "404np", "500", "501", "501ns", "neterr"} \cup Throttled

None == 0 - 1

RECURSIVE Pow2(_)
Pow2(n) == IF n = 0 THEN 1 ELSE 2 * Pow2(n - 1)

(***************************************************************************)
(* The auth module.                                                        *)
(***************************************************************************)
\* tokenFresh abstracts tokenExpirationTime - Date.now(): "fresh" is more than
\* 5 minutes, "expiring" is within 5 minutes, "expired" is <= 0 (also the
\* value 0 of a token never acquired).  A token lives 55 minutes, far beyond
\* the clock's horizon, so the value changes only when a token is acquired or
\* the state is cleared.
isTokenExpiring(a) == a.tokenFresh # "fresh"

\* What a call of refreshTokenIfNeeded(forceRefresh) does first: throw, return
\* the current token, wait for the refresh in progress, or start a refresh.
RefreshEntry(a, forceRefresh) ==
    IF ~a.account THEN "throw"
    ELSE IF ~(forceRefresh \/ a.tokenFresh = "expired" \/ a.accessToken = "") THEN "return"
    ELSE IF a.tokenRefreshInProgress THEN "wait"
    ELSE "start"

\* acquireToken(true) succeeded inside refreshTokenIfNeeded.
AuthRefreshed(a) ==
    [a EXCEPT !.accessToken = "tok", !.tokenFresh = "fresh",
              !.tokenRefreshInProgress = FALSE]

\* acquireToken failed: clearAuthenticationState, then the finally block.
clearAuthenticationState(a) ==
    [a EXCEPT !.account = FALSE, !.accessToken = "", !.tokenFresh = "expired"]

AuthRefreshFailed(a) ==
    [clearAuthenticationState(a) EXCEPT !.tokenRefreshInProgress = FALSE]

(***************************************************************************)
(* One activation of graphRequestWithRetry.                                *)
(*   pc: idle | preRefresh | preWait | fetch | wait | refresh | refreshWait *)
(*       | done | failed                                                   *)
(*   err: what the call threw: none | http | nonRetryable | auth | preauth *)
(*   history: sent (fetches), forced (refreshTokenIfNeeded(true) calls),   *)
(*   last (the last answer), only (the answer when all were the same),     *)
(*   refreshThrew (a refresh it asked for threw), failedAt (the value of   *)
(*   sent when a forced refresh it asked for on a 401 had failed, by       *)
(*   throwing or by the refresh it waited on failing), emptySent (a fetch  *)
(*   left with an empty bearer token).                                     *)
(***************************************************************************)
IdleCall ==
    [pc |-> "idle", maxRetries |-> 0, attempt |-> 0, accessToken |-> "",
     wake |-> 0, clears |-> FALSE, err |-> "none",
     sent |-> 0, forced |-> 0, last |-> "none", only |-> "none",
     refreshThrew |-> FALSE, failedAt |-> None, emptySent |-> FALSE]

Finished(c) == c.pc \in {"done", "failed"}

\* The fetch of loop iteration `attempt`, with the local accessToken `tok`.
Fetch(c, attempt, tok) ==
    [c EXCEPT !.pc = "fetch", !.attempt = attempt, !.accessToken = tok,
              !.sent = c.sent + 1,
              !.emptySent = c.emptySent \/ tok = ""]

Throw(c, err) == [c EXCEPT !.pc = "failed", !.err = err]

\* Mutant: the catch block compares the attempt with the budget off by one.
CatchRetryableOffByOne(c, jitter) ==
    IF c.attempt = c.maxRetries + 1
    THEN Throw(c, "http")
    ELSE [c EXCEPT !.pc = "wait", !.clears = FALSE,
                   !.wake = now + Pow2(c.attempt) * Second + jitter]

\* The catch block of the loop for an error without isNonRetryable or
\* isAuthenticationError: rethrow on the last attempt, else back off.
CatchRetryable(c, jitter) ==
    IF c.attempt = c.maxRetries
    THEN Throw(c, "http")
    ELSE [c EXCEPT !.pc = "wait", !.clears = FALSE,
                   !.wake = now + Pow2(c.attempt) * Second + jitter]

\* Mutant: the retry after a token refresh does not count as an attempt.
After401RefreshUncounted(c, tok) ==
    Fetch(c, c.attempt, tok)

\* Mutant: a 401 is retried once per call, whatever the retry budget.
After401RefreshOnce(c, tok) ==
    IF c.forced <= 1 /\ c.attempt < c.maxRetries
    THEN Fetch(c, c.attempt + 1, tok)
    ELSE Throw([c EXCEPT !.accessToken = tok], "http")

\* The loop after refreshTokenIfNeeded(true) returned `tok` on a 401:
\* continue while attempt < maxRetries; on the last attempt fall through to
\* the !response.ok throw, which the catch block rethrows.
After401Refresh(c, tok) ==
    IF c.attempt < c.maxRetries
    THEN Fetch(c, c.attempt + 1, tok)
    ELSE Throw([c EXCEPT !.accessToken = tok], "http")

\* The call resumes after a refresh returned `tok` without throwing.
RefreshReturned(c, tok) ==
    IF c.pc \in {"preRefresh", "preWait", "idle"}
    THEN Fetch(c, 0, tok)
    ELSE After401Refresh(c, tok)

\* The refresh threw: line 75 before the loop, lines 144-148 inside it.
RefreshThrew(c) ==
    IF c.pc \in {"preRefresh", "preWait", "idle"}
    THEN Throw([c EXCEPT !.refreshThrew = TRUE], "preauth")
    ELSE Throw([c EXCEPT !.refreshThrew = TRUE, !.failedAt = c.sent], "auth")

Seen(c, k) ==
    [c EXCEPT !.last = k,
              !.only = IF c.only \in {"none", k} THEN k ELSE "mixed"]

\* waitTime of a 429/503 answer: Retry-After seconds, else the backoff.
ThrottleWait(c, k, ra, jitter) ==
    IF k \in {"429ra", "503ra"} THEN ra * Second
    ELSE Pow2(c.attempt) * Second + jitter

(***************************************************************************)
(* Actions of the gateway.                                                 *)
(***************************************************************************)
\* graphRequestWithRetry(url, options, maxRetries) up to its first fetch.
StartWith(c0, mr) ==
    LET c == [c0 EXCEPT !.maxRetries = mr] IN
    IF auth.accessToken = "" \/ isTokenExpiring(auth)
    THEN CASE RefreshEntry(auth, FALSE) = "throw" ->
                <<RefreshThrew(c), auth>>
           [] RefreshEntry(auth, FALSE) = "return" ->
                <<Fetch(c, 0, auth.accessToken), auth>>
           [] RefreshEntry(auth, FALSE) = "wait" ->
                <<[c EXCEPT !.pc = "preWait"], auth>>
           [] OTHER ->
                <<[c EXCEPT !.pc = "preRefresh"],
                  [auth EXCEPT !.tokenRefreshInProgress = TRUE]>>
    ELSE <<Fetch(c, 0, auth.accessToken), auth>>

StartCall(id, mr) ==
    /\ calls[id].pc = "idle"
    /\ LET r == StartWith(calls[id], mr) IN
         /\ calls' = [calls EXCEPT ![id] = r[1]]
         /\ auth' = r[2]
    /\ UNCHANGED <<now, throttle, budget>>

\* Lines 105-121: a 429 or 503 sets the global throttle state, then waits and
\* continues unless this is the last attempt (which falls to the !response.ok
\* throw and the catch block).
OnThrottled(c, waitTime, jitter) ==
    IF c.attempt < c.maxRetries
    THEN [c EXCEPT !.pc = "wait", !.clears = TRUE, !.wake = now + waitTime]
    ELSE CatchRetryable(c, jitter)

\* Mutant: the marker error lacks isNonRetryable and is retried.
OnMarkerRetried(c) == CatchRetryable(c, 0)

\* Lines 123-131 and 152-160: a 501 or 404 whose body carries the marker.
OnMarker(c) == Throw(c, "nonRetryable")

\* Lines 134-150: a 401 calls refreshTokenIfNeeded(true).
On401(c, a) ==
    LET f == [c EXCEPT !.forced = c.forced + 1, !.pc = "refresh"] IN
    CASE RefreshEntry(a, TRUE) = "throw" -> <<RefreshThrew(f), a>>
      [] RefreshEntry(a, TRUE) = "wait" -> <<[f EXCEPT !.pc = "refreshWait"], a>>
      [] OTHER -> <<f, [a EXCEPT !.tokenRefreshInProgress = TRUE]>>

\* The answer to the fetch in flight, handled up to the next suspension.
OnResponse(c0, k, ra, jitter) ==
    LET c == Seen(c0, k) IN
    CASE k = "200" -> <<[c EXCEPT !.pc = "done"], auth, throttle>>
      [] k \in Throttled ->
           LET waitTime == ThrottleWait(c, k, ra, jitter) IN
           <<OnThrottled(c, waitTime, jitter), auth,
             [isThrottled |-> TRUE, resumeTime |-> now + waitTime]>>
      [] k \in {"501ns", "404np"} -> <<OnMarker(c), auth, throttle>>
      [] k = "401" -> <<On401(c, auth)[1], On401(c, auth)[2], throttle>>
      [] OTHER -> <<CatchRetryable(c, jitter), auth, throttle>>

Respond(id, k, ra, jitter) ==
    /\ calls[id].pc = "fetch"
    /\ k # "200" => budget > 0
    /\ LET r == OnResponse(calls[id], k, ra, jitter) IN
         /\ calls' = [calls EXCEPT ![id] = r[1]]
         /\ auth' = r[2]
         /\ throttle' = r[3]
    /\ budget' = IF k = "200" THEN budget ELSE budget - 1
    /\ UNCHANGED now

\* delay(waitTime) is over: clear the throttle flag after a 429/503 wait and
\* run the next loop iteration.
WaitDone(id) ==
    /\ calls[id].pc = "wait"
    /\ now >= calls[id].wake
    /\ calls' = [calls EXCEPT ![id] =
                    Fetch(calls[id], calls[id].attempt + 1, calls[id].accessToken)]
    /\ throttle' = IF calls[id].clears
                   THEN [throttle EXCEPT !.isThrottled = FALSE]
                   ELSE throttle
    /\ UNCHANGED <<now, auth, budget>>

\* acquireToken(true) of the refresh this call started settles.
RefreshDone(id, ok) ==
    /\ calls[id].pc \in {"preRefresh", "refresh"}
    /\ ok \/ budget > 0
    /\ IF ok
       THEN /\ auth' = AuthRefreshed(auth)
            /\ calls' = [calls EXCEPT ![id] = RefreshReturned(calls[id], "tok")]
       ELSE /\ auth' = AuthRefreshFailed(auth)
            /\ calls' = [calls EXCEPT ![id] = RefreshThrew(calls[id])]
    /\ budget' = IF ok THEN budget ELSE budget - 1
    /\ UNCHANGED <<now, throttle>>

\* The polling loop of a call that found a refresh in progress sees the flag
\* cleared and returns the module's accessToken, whatever the refresh did.
RefreshWaitDone(id) ==
    /\ calls[id].pc \in {"preWait", "refreshWait"}
    /\ ~auth.tokenRefreshInProgress
    /\ calls' = [calls EXCEPT ![id] =
           RefreshReturned(
               IF calls[id].pc = "refreshWait" /\ ~auth.account
               THEN [calls[id] EXCEPT !.failedAt = calls[id].sent]
               ELSE calls[id],
               auth.accessToken)]
    /\ UNCHANGED <<now, throttle, auth, budget>>

\* The instants at which a delay of some call ends or a timer is due.
Wakes == {calls[id].wake : id \in {i \in DOMAIN calls : calls[i].pc = "wait"}}

Dues == Wakes \cup {t.due : t \in BagToSet(timers)}

\* Time passes until the next delay ends or the next timer is due; what is
\* due now runs first.
Advance ==
    /\ Dues # {}
    /\ \A t \in Dues : t > now
    /\ now' = CHOOSE t \in Dues : \A u \in Dues : t <= u
    /\ now' <= MaxTime
    /\ UNCHANGED <<throttle, auth, calls, budget>>

(***************************************************************************)
(* The gateway called by one caller, against every answer of the remote    *)
(* side.                                                                   *)
(***************************************************************************)
AuthStates ==
    {a \in [account : BOOLEAN, accessToken : {"", "tok"},
            tokenFresh : {"fresh", "expiring", "expired"},
            tokenRefreshInProgress : {FALSE}] :
        ~a.account => (a.accessToken = "" /\ a.tokenFresh = "expired")}

\* The RequestQueue as constructed, with nothing submitted.
QueueIdle ==
    /\ queue = <<>>
    /\ running = 0
    /\ unit = [u \in {} |-> "new"]
    /\ timers = EmptyBag
    /\ admitted = <<>>
    /\ lastDone = None
    /\ lastAdmit = [id |-> None]

\* No batchGetPermissions activation.
BatchIdle ==
    /\ requests = 0
    /\ controller = [stop |-> FALSE]
    /\ results = <<>>
    /\ bgp = [pc |-> "idle", i |-> 0, j |-> 0]
    /\ bhist = [batchFailed |-> {}, individual |-> <<>>, itemFailed |-> {},
                malformed |-> {}, subFailed |-> {}, observed |-> None]

\* A principal of a grant: kind is "none" (the field is absent), "user",
\* "group" or "application" (an identity that is neither); email is the
\* user's email as a sequence of characters, <<>> when it has none.
Principal(kind, email) == [kind |-> kind, email |-> email]

NoPrincipal == Principal("none", <<>>)

\* No grant under examination.
ClassifyIdle ==
    /\ permission = [link |-> "none", grantedToV2 |-> "none",
                     grantedTo |-> NoPrincipal,
                     grantedToIdentitiesV2 |-> [isArray |-> FALSE, items |-> <<>>]]
    /\ tenantDomains = {}
    /\ sharingFilter = "all"
    /\ verdict = [done |-> FALSE, classification |-> "none", include |-> FALSE]

\* No drive under scan.
ScanIdle ==
    /\ container = <<>>
    /\ scanSettings = [contentScope |-> "all", excludeHolds |-> FALSE]
    /\ scan = [pc |-> "idle", k |-> 0]
    /\ walk = <<>>
    /\ found = <<>>
    /\ shist = [strategyA |-> "none", cooled |-> FALSE, faults |-> 0]

\* No listing under way.
ListingIdle ==
    listing = [kind |-> "none", pc |-> "idle", pages |-> 0, page |-> 0,
               items |-> 0]

\* No unit error.
NoError == [where |-> "none", kind |-> "none"]

\* No scan requested yet.
OrchIdle ==
    orch = [scanType |-> "none", scanning |-> FALSE, pc |-> "idle", units |-> 0,
            u |-> 0, outcome |-> "none", errors |-> <<>>, requests |-> 0,
            past |-> 0]

\* A string that may be absent (undefined): text is its sequence of symbols.
Absent == [present |-> FALSE, text |-> <<>>]
Str(text) == [present |-> TRUE, text |-> text]

\* No path being formatted.
PathIdle ==
    path = [parentPath |-> Absent, itemName |-> <<>>, driveName |-> Absent,
            scanType |-> "none", done |-> FALSE, itemPath |-> <<>>,
            inlinePath |-> <<>>]

\* No scan run counted.
RunIdle == run = [k |-> 0, stopped |-> FALSE]

\* No tenant domains being loaded.
DomainLoadIdle ==
    domainLoad = [directory |-> <<>>, username |-> Absent, fails |-> FALSE,
                  done |-> FALSE, result |-> {}]

ExtraIdle == ListingIdle /\ OrchIdle /\ PathIdle /\ RunIdle /\ DomainLoadIdle

OthersIdle == ClassifyIdle /\ ScanIdle /\ ExtraIdle

InitGateway ==
    /\ now = 0
    /\ throttle = [isThrottled |-> FALSE, resumeTime |-> 0]
    /\ auth \in AuthStates
    /\ calls = [id \in {1} |-> IdleCall]
    /\ budget = MaxFaults
    /\ QueueIdle
    /\ BatchIdle
    /\ OthersIdle

NextGateway ==
    \/ \E mr \in 0..MaxRetriesBound :
          StartCall(1, mr) /\ UNCHANGED <<qvars, bvars, ovars>>
    \/ \E k \in Kinds, ra \in 0..MaxRetryAfter, j \in 0..MaxJitter :
          Respond(1, k, ra, j) /\ UNCHANGED <<qvars, bvars, ovars>>
    \/ WaitDone(1) /\ UNCHANGED <<qvars, bvars, ovars>>
    \/ \E ok \in BOOLEAN : RefreshDone(1, ok) /\ UNCHANGED <<qvars, bvars, ovars>>
    \/ Advance /\ UNCHANGED <<qvars, bvars, ovars>>

SpecGateway == InitGateway /\ [][NextGateway]_vars

(***************************************************************************)
(* The gateway called by NCalls concurrent callers that share the auth     *)
(* module, against the answers 200 and 401.                                *)
(***************************************************************************)
Callers == 1..NCalls

InitRefresh ==
    /\ now = 0
    /\ throttle = [isThrottled |-> FALSE, resumeTime |-> 0]
    /\ auth \in AuthStates
    /\ calls = [id \in Callers |-> IdleCall]
    /\ budget = MaxFaults
    /\ QueueIdle
    /\ BatchIdle
    /\ OthersIdle

NextRefresh ==
    \/ \E id \in Callers, mr \in 0..MaxRetriesBound :
          StartCall(id, mr) /\ UNCHANGED <<qvars, bvars, ovars>>
    \/ \E id \in Callers, k \in {"200", "401"} :
          Respond(id, k, 0, 0) /\ UNCHANGED <<qvars, bvars, ovars>>
    \/ \E id \in Callers, ok \in BOOLEAN :
          RefreshDone(id, ok) /\ UNCHANGED <<qvars, bvars, ovars>>
    \/ \E id \in Callers : RefreshWaitDone(id) /\ UNCHANGED <<qvars, bvars, ovars>>

SpecRefresh == InitRefresh /\ [][NextRefresh]_vars

(***************************************************************************)
(* The RequestQueue.  A unit is the requestFn given to add; the units of   *)
(* this program run graphRequestWithRetry with the default maxRetries, so  *)
(* a running unit is the gateway activation calls[u].                      *)
(***************************************************************************)
Max(a, b) == IF a >= b THEN a ELSE b

\* Mutant: the ceiling is compared off by one.
AtCapacityOffByOne(r, q) == r > maxConcurrent \/ Len(q) = 0

\* Line 29: nothing to start, or no free slot.
AtCapacity(r, q) == r >= maxConcurrent \/ Len(q) = 0

\* Mutant: the comparison with resumeTime is reversed.
ThrottleActiveReversed(th, t) == th.isThrottled /\ t > th.resumeTime

\* Line 33: the global throttle state is active at time t.
ThrottleActive(th, t) == th.isThrottled /\ t < th.resumeTime

\* Line 34: when the timer set during a throttle window fires
\* (Math.max(100, resumeTime - Date.now()) ms from now; 100 ms is 1 tick).
ThrottleRetryAt(th, t) == t + Max(1, th.resumeTime - t)

\* Mutant: the newest unit is taken (pop instead of shift).
NextUnitNewest(q) == q[Len(q)]

\* Line 39: queue.shift() takes the oldest unit.
NextUnit(q) == Head(q)

Without(q, u) == SelectSeq(q, LAMBDA x : x # u)

DelayTimer(t) == [due |-> t + delayBetweenRequests, window |-> None]

\* process(), run on the queue q, the count r, the timers tm and the unit
\* states un that the calling handler leaves; `by` names that handler in the
\* history (add, or the timer of a completion or of a throttle window).
Process(q, r, tm, un, by) ==
    IF AtCapacity(r, q)
    THEN /\ queue' = q /\ running' = r /\ timers' = tm /\ unit' = un
         /\ UNCHANGED <<calls, auth, admitted, lastAdmit>>
    ELSE IF ThrottleActive(throttle, now)
    THEN /\ timers' = tm (+) SetToBag({[due |-> ThrottleRetryAt(throttle, now),
                                         window |-> throttle.resumeTime]})
         /\ queue' = q /\ running' = r /\ unit' = un
         /\ UNCHANGED <<calls, auth, admitted, lastAdmit>>
    ELSE LET u == NextUnit(q)
             r0 == StartWith(IdleCall, DefaultMaxRetries)
         IN /\ running' = r + 1
            /\ queue' = Without(q, u)
            /\ unit' = [un EXCEPT ![u] = "running"]
            /\ timers' = tm
            /\ calls' = [calls EXCEPT ![u] = r0[1]]
            /\ auth' = r0[2]
            /\ admitted' = Append(admitted, u)
            /\ lastAdmit' = [id |-> u, by |-> by, waiting |-> Len(q) - 1]

\* add(requestFn): push, then process().
Add(u) ==
    /\ u \in DOMAIN unit
    /\ unit[u] = "new"
    /\ \A v \in DOMAIN unit : v < u => unit[v] # "new"
    /\ Process(Append(queue, u), running, timers, [unit EXCEPT ![u] = "queued"], "add")
    /\ UNCHANGED <<now, throttle, budget, lastDone>>

\* A timer fires: process().
TimerFire(t) ==
    /\ BagIn(t, timers)
    /\ t.due <= now
    /\ Process(queue, running, timers (-) SetToBag({t}), unit,
               IF t.window = None THEN "delay" ELSE "throttle")
    /\ UNCHANGED <<now, throttle, budget, lastDone>>

\* Lines 41-49 once requestFn has settled: resolve or reject, running--, and
\* the timer of the next process().
SettleResolves(u) ==
    /\ unit' = [unit EXCEPT ![u] = "resolved"]
    /\ running' = running - 1
    /\ timers' = timers (+) SetToBag({DelayTimer(now)})
    /\ lastDone' = now
    /\ UNCHANGED <<queue, admitted, lastAdmit>>
Settle(u) ==
    /\ unit' = [unit EXCEPT ![u] = IF calls'[u].pc = "done" THEN "resolved"
                                   ELSE "rejected"]
    /\ running' = running - 1
    /\ timers' = timers (+) SetToBag({DelayTimer(now)})
    /\ lastDone' = now
    /\ UNCHANGED <<queue, admitted, lastAdmit>>

\* The unit's request is answered; the unit settles when its call ends.
UnitRespond(u, k, ra, jitter) ==
    /\ u \in DOMAIN unit
    /\ unit[u] = "running"
    /\ Respond(u, k, ra, jitter)
    /\ IF Finished(calls'[u]) THEN Settle(u) ELSE UNCHANGED qvars

\* The unit's delay inside the gateway ends.
UnitWaitDone(u) ==
    /\ u \in DOMAIN unit
    /\ unit[u] = "running"
    /\ WaitDone(u)
    /\ UNCHANGED qvars

QueueInit(units, faults) ==
    /\ now = 0
    /\ throttle = [isThrottled |-> FALSE, resumeTime |-> 0]
    /\ auth = [account |-> TRUE, accessToken |-> "tok", tokenFresh |-> "fresh",
               tokenRefreshInProgress |-> FALSE]
    /\ calls = [u \in units |-> IdleCall]
    /\ budget = faults
    /\ queue = <<>>
    /\ running = 0
    /\ unit = [u \in units |-> "new"]
    /\ timers = EmptyBag
    /\ admitted = <<>>
    /\ lastDone = None
    /\ lastAdmit = [id |-> None]
    /\ BatchIdle
    /\ OthersIdle

(***************************************************************************)
(* The shared queue under load: MaxUnits units whose requests are answered *)
(* 200 or fail at once (404 with the not-provisioned marker).              *)
(***************************************************************************)
InitQueue == QueueInit(1..MaxUnits, MaxQueueFaults)

NextQueue ==
    \/ \E u \in DOMAIN unit : Add(u) /\ UNCHANGED <<bvars, ovars>>
    \/ \E t \in BagToSet(timers) : TimerFire(t) /\ UNCHANGED <<bvars, ovars>>
    \/ \E u \in DOMAIN unit, k \in {"200", "404np"} :
          UnitRespond(u, k, 0, 0) /\ UNCHANGED <<bvars, ovars>>
    \/ Advance /\ UNCHANGED <<qvars, bvars, ovars>>

SpecQueue == InitQueue /\ [][NextQueue]_vars

(***************************************************************************)
(* The shared queue under throttling: MaxThrottleUnits units whose         *)
(* requests are answered 200, 429 with Retry-After, or 503 without.        *)
(***************************************************************************)
InitThrottle == QueueInit(1..MaxThrottleUnits, MaxThrottleFaults)

NextThrottle ==
    \/ \E u \in DOMAIN unit : Add(u) /\ UNCHANGED <<bvars, ovars>>
    \/ \E t \in BagToSet(timers) : TimerFire(t) /\ UNCHANGED <<bvars, ovars>>
    \/ \E u \in DOMAIN unit, k \in {"200", "429ra", "503"}, ra \in 0..MaxRetryAfter :
          UnitRespond(u, k, ra, 0) /\ UNCHANGED <<bvars, ovars>>
    \/ \E u \in DOMAIN unit : UnitWaitDone(u) /\ UNCHANGED <<bvars, ovars>>
    \/ Advance /\ UNCHANGED <<qvars, bvars, ovars>>

SpecThrottle == InitThrottle /\ [][NextThrottle]_vars

(***************************************************************************)
(* Overlapping throttle windows: MaxWindowUnits units, two of them in      *)
(* flight at a time, whose requests are answered 200, 429 with Retry-After *)
(* or 503 without, MaxWindowFaults times in all.                           *)
(***************************************************************************)
InitWindow == QueueInit(1..MaxWindowUnits, MaxWindowFaults)

NextWindow ==
    \/ \E u \in DOMAIN unit : Add(u) /\ UNCHANGED <<bvars, ovars>>
    \/ \E t \in BagToSet(timers) : TimerFire(t) /\ UNCHANGED <<bvars, ovars>>
    \/ \E u \in DOMAIN unit, k \in {"200", "429ra", "503"}, ra \in 0..MaxRetryAfter :
          UnitRespond(u, k, ra, 0) /\ UNCHANGED <<bvars, ovars>>
    \/ \E u \in DOMAIN unit : UnitWaitDone(u) /\ UNCHANGED <<bvars, ovars>>
    \/ Advance /\ UNCHANGED <<qvars, bvars, ovars>>

SpecWindow == InitWindow /\ [][NextWindow]_vars

(***************************************************************************)
(* Progress of the shared queue: MaxLiveUnits units, answered 200, 429     *)
(* with Retry-After: 1, or 404 with the not-provisioned marker.  Timers    *)
(* that are due fire, every request in flight is answered, every delay     *)
(* ends and time passes; when a unit is submitted is up to the callers.    *)
(***************************************************************************)
InitLive == QueueInit(1..MaxLiveUnits, MaxLiveFaults)

LiveTimerFire == \E t \in BagToSet(timers) : TimerFire(t) /\ UNCHANGED <<bvars, ovars>>

LiveRespond ==
    \E u \in DOMAIN unit, k \in {"200", "429ra", "404np"} :
        UnitRespond(u, k, 1, 0) /\ UNCHANGED <<bvars, ovars>>

LiveWaitDone == \E u \in DOMAIN unit : UnitWaitDone(u) /\ UNCHANGED <<bvars, ovars>>

LiveAdvance == Advance /\ UNCHANGED <<qvars, bvars, ovars>>

NextLive ==
    \/ \E u \in DOMAIN unit : Add(u) /\ UNCHANGED <<bvars, ovars>>
    \/ LiveTimerFire
    \/ LiveRespond
    \/ LiveWaitDone
    \/ LiveAdvance

SpecLive ==
    /\ InitLive
    /\ [][NextLive]_vars
    /\ WF_vars(LiveTimerFire)
    /\ WF_vars(LiveRespond)
    /\ WF_vars(LiveWaitDone)
    /\ WF_vars(LiveAdvance)

(***************************************************************************)
(* batchGetPermissions(requests, controller).  Request k (0-based, as in   *)
(* the code) is for item k.  requestQueue.add(fn) settles with the result  *)
(* or the error of fn; here each settlement is an input of the action that *)
(* awaits it.  An entry of results is [item, permissions], permissions     *)
(* being <<>> for [], <<"value", id>> for the body.value of the            *)
(* sub-response id, and <<"paged", k>> for what graphGetAll returns for    *)
(* request k.                                                              *)
(***************************************************************************)
Min(a, b) == IF a <= b THEN a ELSE b

\* Line 210: requests.slice(i, i + batchSize), as the set of its indices.
BatchLen(n, i) == Min(batchSize, n - i)

Entry(item, permissions) == [item |-> item, permissions |-> permissions]

\* What stands for a thrown error where an entry is expected.
TypeError == Entry(None, <<"threw">>)

\* Mutant: the status of the sub-response is not looked at.
SubResponseEntryAnyStatus(r, i, len) ==
    LET itemIndex == r.id - i IN
    IF itemIndex \notin 0..(len - 1) THEN TypeError
    ELSE Entry(i + itemIndex, <<"value", r.id>>)

\* Lines 229-242, one sub-response r of the group starting at i with len
\* requests: the entry pushed, or TypeError when batch[itemIndex] is
\* undefined.
SubResponseEntry(r, i, len) ==
    LET itemIndex == r.id - i IN
    IF itemIndex \notin 0..(len - 1) THEN TypeError
    ELSE IF r.status = 200 THEN Entry(i + itemIndex, <<"value", r.id>>)
    ELSE Entry(i + itemIndex, <<>>)

\* The loop of lines 229-242 over the sub-responses rs: the entries pushed
\* before the first TypeError, and whether one was thrown.
RECURSIVE PushResponses(_, _, _, _)
PushResponses(rs, i, len, acc) ==
    IF rs = <<>> THEN [results |-> acc, threw |-> FALSE]
    ELSE IF SubResponseEntry(Head(rs), i, len) = TypeError
    THEN [results |-> acc, threw |-> TRUE]
    ELSE PushResponses(Tail(rs), i, len,
                       Append(acc, SubResponseEntry(Head(rs), i, len)))

\* Answers of the batch endpoint to the group starting at i: every
\* sub-response present and in order, those in `bad` with a non-success
\* status.
InOrder(i, len, bad) ==
    [k \in 1..len |-> [id |-> i + k - 1,
                       status |-> IF (k - 1) \in bad THEN 404 ELSE 200]]

Reversed(rs) == [k \in 1..Len(rs) |-> rs[Len(rs) + 1 - k]]

\* The sub-response at position p carries an id of no request of the group.
StaleId(rs, p, id) == [rs EXCEPT ![p] = [id |-> id, status |-> 200]]

BadSets(len, b) ==
    {bad \in {{}} \cup {{x, y} : x, y \in 0..(len - 1)} : Cardinality(bad) <= b}

\* The answers the remote side may give, each with what it costs of the
\* fault budget; the empty answer is a body without a responses array (a
\* group is never empty, so no other answer is empty).
BatchAnswers(i, len, b) ==
    {[responses |-> InOrder(i, len, bad), cost |-> Cardinality(bad)] :
        bad \in BadSets(len, b)}
    \cup {[responses |-> Reversed(InOrder(i, len, {})), cost |-> 0]}
    \cup (IF b > 0
          THEN {[responses |-> StaleId(InOrder(i, len, {}), p, i + len), cost |-> 1] :
                    p \in 1..len}
               \cup {[responses |-> <<>>, cost |-> 1]}
          ELSE {})

\* Mutant: the cancellation flag is never looked at.
CancelledNever(c) == FALSE

\* Lines 208 and 248: if (controller.stop) break.
Cancelled(c) == c.stop

\* History: the flag was seen set when rs had been accumulated.
Observed(h, rs) ==
    IF h.observed = None THEN [h EXCEPT !.observed = Len(rs)] ELSE h

\* Lines 207-225: the head of the loop over the groups, up to the batch call.
GroupHead ==
    /\ bgp.pc = "loop"
    /\ bgp' = IF bgp.i >= requests \/ Cancelled(controller)
               THEN [bgp EXCEPT !.pc = "done"]
               ELSE [bgp EXCEPT !.pc = "batch"]
    /\ bhist' = IF bgp.i < requests /\ Cancelled(controller)
                 THEN Observed(bhist, results) ELSE bhist
    /\ UNCHANGED <<requests, controller, results, budget>>

\* The catch block of line 244 is entered: the per-item loop starts.
ToFallback(h, i) ==
    [h EXCEPT !.batchFailed = h.batchFailed \cup {i}]

\* Lines 219-227 throw: the batch call is rejected, or its body is no JSON.
BatchFails ==
    /\ bgp.pc = "batch"
    /\ budget > 0
    /\ budget' = budget - 1
    /\ bgp' = [bgp EXCEPT !.pc = "fallback", !.j = 0]
    /\ bhist' = ToFallback(bhist, bgp.i)
    /\ UNCHANGED <<requests, controller, results>>

\* Lines 219-243: the batch call returns and its sub-responses are pushed.
BatchResponds(a) ==
    /\ bgp.pc = "batch"
    /\ budget' = budget - a.cost
    /\ LET len == BatchLen(requests, bgp.i)
           pushed == IF a.responses = <<>>
                     THEN [results |-> results, threw |-> TRUE]
                     ELSE PushResponses(a.responses, bgp.i, len, results)
       IN /\ results' = pushed.results
          /\ bgp' = IF pushed.threw
                     THEN [bgp EXCEPT !.pc = "fallback", !.j = 0]
                     ELSE [bgp EXCEPT !.pc = "pace"]
          /\ bhist' = [bhist EXCEPT
                 !.malformed = IF pushed.threw THEN bhist.malformed \cup {bgp.i}
                               ELSE bhist.malformed,
                 !.subFailed = bhist.subFailed \cup
                     {a.responses[k].id : k \in {x \in DOMAIN a.responses :
                                                    a.responses[x].status # 200}}]
    /\ UNCHANGED <<requests, controller>>

\* Mutant: a failing individual request is not caught.
ItemFailedUncaught(item) == TypeError

\* Lines 254-257: a failing individual request degrades to [].
ItemFailed(item) == Entry(item, <<>>)

\* Lines 247-258, one item of the per-item loop: the stop check, the
\* individual request through the queue, and the entry pushed.
FallbackItem(ok) ==
    /\ bgp.pc = "fallback"
    /\ bgp.j < BatchLen(requests, bgp.i)
    /\ ~Cancelled(controller)
    /\ ok \/ budget > 0
    /\ budget' = IF ok THEN budget ELSE budget - 1
    /\ LET item == bgp.i + bgp.j
           e == IF ok THEN Entry(item, <<"paged", item>>) ELSE ItemFailed(item)
       IN /\ results' = IF e = TypeError THEN results ELSE Append(results, e)
          /\ bgp' = IF e = TypeError THEN [bgp EXCEPT !.pc = "threw"]
                     ELSE [bgp EXCEPT !.j = bgp.j + 1]
          /\ bhist' = [bhist EXCEPT
                          !.individual = Append(bhist.individual, item),
                          !.itemFailed = IF ok THEN bhist.itemFailed
                                         ELSE bhist.itemFailed \cup {item}]
    /\ UNCHANGED <<requests, controller>>

\* The per-item loop ends: every item done, or stop seen at line 248.
FallbackEnds ==
    /\ bgp.pc = "fallback"
    /\ bgp.j >= BatchLen(requests, bgp.i) \/ Cancelled(controller)
    /\ bgp' = [bgp EXCEPT !.pc = "pace"]
    /\ bhist' = IF bgp.j < BatchLen(requests, bgp.i)
                 THEN Observed(bhist, results) ELSE bhist
    /\ UNCHANGED <<requests, controller, results, budget>>

\* Line 261 and the loop increment.
Pace ==
    /\ bgp.pc = "pace"
    /\ bgp' = [bgp EXCEPT !.pc = "loop", !.i = bgp.i + batchSize]
    /\ UNCHANGED <<requests, controller, results, bhist, budget>>

\* The operator asks the scan to stop.
Stop ==
    /\ bgp.pc \notin {"done", "threw"}
    /\ ~controller.stop
    /\ controller' = [controller EXCEPT !.stop = TRUE]
    /\ UNCHANGED <<requests, results, bgp, bhist, budget>>

InitBatch ==
    /\ now = 0
    /\ throttle = [isThrottled |-> FALSE, resumeTime |-> 0]
    /\ auth = [account |-> TRUE, accessToken |-> "tok", tokenFresh |-> "fresh",
               tokenRefreshInProgress |-> FALSE]
    /\ calls = <<>>
    /\ budget = MaxBatchFaults
    /\ QueueIdle
    /\ requests \in 0..MaxRequests
    /\ controller = [stop |-> FALSE]
    /\ results = <<>>
    /\ bgp = [pc |-> "loop", i |-> 0, j |-> 0]
    /\ bhist = [batchFailed |-> {}, individual |-> <<>>, itemFailed |-> {},
                malformed |-> {}, subFailed |-> {}, observed |-> None]
    /\ OthersIdle

\* What batchGetPermissions leaves alone in this specification.
bframe == <<now, throttle, auth, calls, qvars, ovars>>

NextBatch ==
    \/ GroupHead /\ UNCHANGED bframe
    \/ BatchFails /\ UNCHANGED bframe
    \/ \E a \in BatchAnswers(bgp.i, BatchLen(requests, bgp.i), budget) :
          BatchResponds(a) /\ UNCHANGED bframe
    \/ \E ok \in BOOLEAN : FallbackItem(ok) /\ UNCHANGED bframe
    \/ FallbackEnds /\ UNCHANGED bframe
    \/ Pace /\ UNCHANGED bframe
    \/ Stop /\ UNCHANGED bframe

SpecBatch == InitBatch /\ [][NextBatch]_vars

(***************************************************************************)
(* Claims about batchGetPermissions.                                       *)
(***************************************************************************)
Group(i) == {k \in 0..(requests - 1) : i <= k /\ k < i + batchSize}

Count(seq, P(_)) == Cardinality({k \in 1..Len(seq) : P(seq[k])})

EntriesOf(item) == {k \in 1..Len(results) : results[k].item = item}

\* C10: when batchGetPermissions has returned without cancellation, every
\* group whose batch call failed outright got exactly one individual request
\* per item and has exactly one entry per item, with an empty permission list
\* exactly for the items whose individual request failed; and the function
\* never throws.
C10_FallbackPerItem ==
    /\ bgp.pc # "threw"
    /\ (bgp.pc = "done" /\ ~controller.stop) =>
          \A i \in bhist.batchFailed : \A item \in Group(i) :
              /\ Count(bhist.individual, LAMBDA x : x = item) = 1
              /\ Cardinality(EntriesOf(item)) = 1
              /\ \A k \in EntriesOf(item) :
                    results[k].permissions =
                        IF item \in bhist.itemFailed THEN <<>>
                        ELSE <<"paged", item>>

\* A group of 5 whose batch call failed: 5 individual requests, one of them
\* failing, 5 entries.
C10_Witness ==
    /\ bgp.pc = "done" /\ ~controller.stop
    /\ requests = 5
    /\ bhist.batchFailed = {0}
    /\ Cardinality(bhist.itemFailed) = 1
    /\ Len(bhist.individual) = 5
    /\ Len(results) = 5

\* C11: when batchGetPermissions has returned without cancellation and every
\* batch call succeeded with one sub-response per request, there is exactly
\* one entry per input item, and it carries the permission list of the
\* sub-response whose id is the item's index when that sub-response has
\* status 200, and the empty list otherwise.
C11_OneEntryPerItem ==
    (/\ bgp.pc = "done" /\ ~controller.stop
     /\ bhist.batchFailed = {} /\ bhist.malformed = {})
        => /\ Len(results) = requests
           /\ \A item \in 0..(requests - 1) :
                 /\ Cardinality(EntriesOf(item)) = 1
                 /\ \A k \in EntriesOf(item) :
                       results[k].permissions =
                           IF item \in bhist.subFailed THEN <<>>
                           ELSE <<"value", item>>

\* Two groups answered by the batch endpoint, the sub-responses of one not
\* in the order of the requests, one sub-response with a non-success status.
C11_Witness ==
    /\ bgp.pc = "done" /\ ~controller.stop
    /\ bhist.batchFailed = {} /\ bhist.malformed = {}
    /\ requests > batchSize
    /\ Cardinality(bhist.subFailed) = 1
    /\ results[1].item # 0

\* C12: no batch call and no individual request is started in a step that
\* finds the cancellation flag set, and once the flag has been seen set at
\* one of the two checks nothing more is started or accumulated: the call
\* returns the entries it had at that moment.
C12_StopsWhenCancelled ==
    [][/\ (bgp.pc = "loop" /\ bgp'.pc = "batch") => ~controller.stop
       /\ Len(bhist'.individual) > Len(bhist.individual) => ~controller.stop
       /\ bhist.observed # None
             => /\ results' = results
                /\ Len(results) = bhist.observed
                /\ bgp'.pc \in {"pace", "loop", "done"}
                /\ bhist'.individual = bhist.individual]_vars

\* The flag was seen inside the per-item loop of a second group, and the
\* call returned what it had: the first group and part of the second.
C12_Witness ==
    /\ bgp.pc = "done"
    /\ bhist.observed # None
    /\ bgp.i > batchSize /\ bgp.j > 0 /\ bgp.j < BatchLen(requests, bgp.i - batchSize)
    /\ Len(results) = bhist.observed

\* C38: at no point does the list hold more than one entry for the same
\* input item.
C38_AtMostOneEntry ==
    \A item \in 0..(requests - 1) : Cardinality(EntriesOf(item)) <= 1

(***************************************************************************)
(* Claims about the RequestQueue.                                          *)
(***************************************************************************)
\* C6: no step starts a unit while the global throttle state is active
\* (isThrottled set and the time before resumeTime), and the timer that
\* process() sets for a unit it finds waiting during a throttle window is due,
\* and fires, only when that window has closed.
C6_NoAdmissionWhileThrottled ==
    [][/\ Len(admitted') > Len(admitted)
             => ~(throttle.isThrottled /\ now < throttle.resumeTime)
       /\ \A t \in BagToSet(timers) :
             (t.window # None /\ CopiesIn(t, timers') < CopiesIn(t, timers))
                 => now >= t.window
       /\ \A t \in BagToSet(timers') :
             t.window # None => t.due >= t.window]_vars

\* A unit that waited during a throttle window was started by the timer set
\* for it, after the window.
C6_Witness ==
    /\ lastAdmit.id # None
    /\ lastAdmit.by = "throttle"
    /\ throttle.resumeTime > 0
    /\ now >= throttle.resumeTime

\* C7: the number of units started and not yet completed is between 0 and
\* maxConcurrent in every reachable state, and it is the count running.
C7_RunningBounded ==
    /\ running \in 0..maxConcurrent
    /\ running = Cardinality({u \in DOMAIN unit : unit[u] = "running"})

\* The ceiling held a unit back, and the timer of a completion started it.
C7_Witness ==
    /\ running = maxConcurrent
    /\ lastAdmit.id = maxConcurrent + 1
    /\ lastAdmit.by = "delay"

\* C8: units are started in the order of their add calls (the ids count the
\* add calls).
C8_FifoAdmission ==
    \A k \in 1..Len(admitted) : admitted[k] = k

\* Unit 2 was started ahead of unit 3, which waited with it, and completed
\* while unit 1, started before it, still runs.
C8_Witness ==
    /\ lastAdmit.id = 2 /\ lastAdmit.waiting = 1
    /\ unit[1] = "running"
    /\ unit[2] \in {"resolved", "rejected"}

\* C9 as claimed: no step starts a unit sooner than delayBetweenRequests
\* after the latest completion, a unit submitted right after it included.
C9_DelayAfterCompletion ==
    [][(Len(admitted') > Len(admitted) /\ lastDone # None)
           => now >= lastDone + delayBetweenRequests]_vars

(***************************************************************************)
(* Claims about the gateway.                                               *)
(***************************************************************************)
\* C1: a call whose every answer is a 503 without Retry-After sends exactly
\* maxRetries + 1 fetches and then fails, for every maxRetries >= 0.
C1_RetryBound ==
    \A id \in DOMAIN calls :
        (Finished(calls[id]) /\ calls[id].only = "503")
            => /\ calls[id].sent = calls[id].maxRetries + 1
               /\ calls[id].pc = "failed"
               /\ calls[id].err = "http"

C1_Witness ==
    \E id \in DOMAIN calls :
        /\ calls[id].pc = "failed" /\ calls[id].only = "503"
        /\ calls[id].maxRetries = 3 /\ calls[id].sent = 4

\* C2: as soon as an answer is a 501 with the not-supported marker or a 404
\* with the not-provisioned marker the call has failed with a non-retryable
\* error and sends nothing more, whatever retry budget remains; when that
\* answer is the first one the call has sent exactly 1 fetch.
C2_NonRetryable ==
    \A id \in DOMAIN calls :
        /\ calls[id].last \in {"501ns", "404np"}
              => (calls[id].pc = "failed" /\ calls[id].err = "nonRetryable")
        /\ calls[id].only \in {"501ns", "404np"} => calls[id].sent = 1

C2_Witness ==
    \E id \in DOMAIN calls :
        /\ calls[id].last = "404np" /\ calls[id].pc = "failed"
        /\ calls[id].sent = 2 /\ calls[id].maxRetries = 3

\* C3: whatever the answers, a call never sends more than maxRetries + 1
\* fetches.
C3_AttemptsBounded ==
    \A id \in DOMAIN calls :
        calls[id].pc # "idle" => calls[id].sent <= calls[id].maxRetries + 1

C3_Witness ==
    \E id \in DOMAIN calls :
        /\ calls[id].only = "mixed" /\ calls[id].forced > 0
        /\ calls[id].maxRetries >= 2
        /\ calls[id].sent = calls[id].maxRetries + 1

AllUnauthorized(c) == Finished(c) /\ c.only = "401" /\ c.failedAt = None

\* C4 as claimed: a call whose every answer is a 401 and whose every forced
\* refresh succeeds does exactly one forced refresh and 2 fetches, whatever
\* maxRetries is.
C4_AsClaimed ==
    \A id \in DOMAIN calls :
        AllUnauthorized(calls[id])
            => (calls[id].sent = 2 /\ calls[id].forced = 1)

\* C4 amended: such a call does one forced refresh per 401 and retries while
\* the retry budget lasts: maxRetries + 1 fetches and maxRetries + 1 forced
\* refreshes, then it fails with the HTTP error.
C4_RefreshPerAttempt ==
    \A id \in DOMAIN calls :
        AllUnauthorized(calls[id])
            => /\ calls[id].sent = calls[id].maxRetries + 1
               /\ calls[id].forced = calls[id].maxRetries + 1
               /\ calls[id].pc = "failed" /\ calls[id].err = "http"

C4_Witness ==
    \E id \in DOMAIN calls :
        /\ AllUnauthorized(calls[id])
        /\ calls[id].maxRetries = 3 /\ calls[id].sent = 4

\* C5 as claimed: once the forced refresh a call asked for on a 401 has
\* failed, the call has failed with the authentication error and has sent
\* no further fetch.
C5_AuthFailureStops ==
    \A id \in DOMAIN calls :
        calls[id].failedAt # None
            => /\ calls[id].pc = "failed" /\ calls[id].err = "auth"
               /\ calls[id].sent = calls[id].failedAt

(***************************************************************************)
(* Permission classification.  A grant (permission) is a record            *)
(*   link: "none" or the scope of its link (anonymous, organization,       *)
(*         users);                                                         *)
(*   grantedToV2: "none", "user", "group" or "siteGroup", the identity     *)
(*         that grantedToV2 carries;                                       *)
(*   grantedTo: a principal;                                               *)
(*   grantedToIdentitiesV2: isArray and its items, principals.             *)
(* Emails and domains are sequences of characters, so that toLowerCase and *)
(* split('@') are computed.                                                *)
(***************************************************************************)
\* String.prototype.toLowerCase on the characters in use.
LowerChar(ch) ==
    CASE ch = "C" -> "c"
      [] ch = "G" -> "g"
      [] OTHER -> ch

toLowerCase(str) == [k \in 1..Len(str) |-> LowerChar(str[k])]

\* The index of the first '@' of str, 0 when it has none.
FirstAt(str) ==
    IF \E k \in 1..Len(str) : str[k] = "@"
    THEN CHOOSE k \in 1..Len(str) :
            str[k] = "@" /\ \A j \in 1..(k - 1) : str[j] # "@"
    ELSE 0

\* str.split('@')[1]: what lies between the first '@' and the next one (or
\* the end); <<>> stands for undefined as well as for '', both falsy.
SplitAt1(str) ==
    IF FirstAt(str) = 0 THEN <<>>
    ELSE LET rest == SubSeq(str, FirstAt(str) + 1, Len(str)) IN
         IF FirstAt(rest) = 0 THEN rest
         ELSE SubSeq(rest, 1, FirstAt(rest) - 1)

\* Lines 87 and 100: email.toLowerCase().split('@')[1].
emailDomain(email) == SplitAt1(toLowerCase(email))

isExternalUser(email, domains) ==
    IF email = <<>> THEN FALSE
    ELSE IF emailDomain(email) = <<>> THEN FALSE
    ELSE ~(\E domain \in domains : emailDomain(email) = toLowerCase(domain))

\* Lines 141-151: what grantedTo contributes to isExternal / isInternal.
GrantedToVotes(p, domains) ==
    IF p.grantedTo.kind = "user" /\ p.grantedTo.email # <<>>
    THEN {IF isExternalUser(p.grantedTo.email, domains)
          THEN "external" ELSE "internal"}
    ELSE {}

\* Mutant: every user of grantedToIdentitiesV2 is taken for internal.
IdentityVotesInternalOnly(g, domains) ==
    IF g.kind \in {"user", "group"} /\ (g.kind = "user" => g.email # <<>>)
    THEN {"internal"}
    ELSE {}

\* Lines 156-170: what one entry of grantedToIdentitiesV2 contributes.
IdentityVotes(g, domains) ==
    IF g.kind = "user" /\ g.email # <<>>
    THEN {IF isExternalUser(g.email, domains) THEN "external" ELSE "internal"}
    ELSE IF g.kind = "group" THEN {"internal"}
    ELSE {}

\* Lines 154-172.
IdentitiesVotes(p, domains) ==
    IF p.grantedToIdentitiesV2.isArray
    THEN UNION {IdentityVotes(p.grantedToIdentitiesV2.items[k], domains) :
                   k \in DOMAIN p.grantedToIdentitiesV2.items}
    ELSE {}

classifyPermission(p, domains) ==
    LET votes == GrantedToVotes(p, domains) \cup IdentitiesVotes(p, domains)
        isExternal == "external" \in votes
        isInternal == "internal" \in votes
    IN IF p.link = "anonymous" THEN "external"
       ELSE IF p.link = "organization" THEN "internal"
       ELSE IF p.grantedToV2 = "group" THEN "internal"
       ELSE IF isExternal /\ ~isInternal THEN "external"
       ELSE IF isInternal /\ ~isExternal THEN "internal"
       ELSE IF isExternal /\ isInternal THEN "mixed"
       ELSE "unknown"

\* Lines 194-196.
hasGroupPermission(p) == p.grantedToV2 \in {"group", "siteGroup"}

\* Mutant: a user without an email is not taken for a direct user grant.
isDirectUserGrantWithEmail(p) ==
    /\ p.grantedTo.kind = "user"
    /\ p.grantedTo.email # <<>>
    /\ p.link = "none"
    /\ ~hasGroupPermission(p)

\* Lines 208-213.
isDirectUserGrant(p) ==
    /\ p.grantedTo.kind = "user"
    /\ p.link = "none"
    /\ ~hasGroupPermission(p)

\* Mutant: the internal filter keeps internal grants only.
includeBasedOnFilterStrict(classification, filter) ==
    CASE filter = "external" -> classification \in {"external", "mixed"}
      [] filter = "internal" -> classification = "internal"
      [] filter = "all" -> TRUE
      [] OTHER -> classification \in {"external", "mixed"}

\* Lines 241-254: the switch on sharingFilter.
includeBasedOnFilter(classification, filter) ==
    CASE filter = "external" -> classification \in {"external", "mixed"}
      [] filter = "internal" -> classification \in {"internal", "mixed"}
      [] filter = "all" -> TRUE
      [] OTHER -> classification \in {"external", "mixed"}

shouldIncludePermission(p, domains, filter) ==
    IF isDirectUserGrant(p) THEN FALSE
    ELSE includeBasedOnFilter(classifyPermission(p, domains), filter)

\* The inputs: emails (none, a@C, e@g, and one without a domain), tenant
\* domains (c and G), and grants of every shape over them.
Emails == {<<>>, <<"a", "@", "C">>, <<"e", "@", "g">>, <<"n">>}

Domains == {<<"c">>, <<"G">>}

Identities == {Principal("user", e) : e \in Emails} \cup {Principal("group", <<>>)}

IdentityLists ==
    UNION {[1..n -> Identities] : n \in 0..MaxIdentities}

Grants ==
    [link : {"none", "anonymous", "organization", "users"},
     grantedToV2 : {"none", "user", "group", "siteGroup"},
     grantedTo : {NoPrincipal, Principal("application", <<>>)}
                 \cup {Principal("user", e) : e \in Emails},
     grantedToIdentitiesV2 :
         {[isArray |-> FALSE, items |-> <<>>]}
         \cup {[isArray |-> TRUE, items |-> l] : l \in IdentityLists}]

\* sharingFilter: the three modes, and a value that is none of them.
Filters == {"all", "external", "internal", "unset"}

GatewayIdle ==
    /\ now = 0
    /\ throttle = [isThrottled |-> FALSE, resumeTime |-> 0]
    /\ auth = [account |-> TRUE, accessToken |-> "tok", tokenFresh |-> "fresh",
               tokenRefreshInProgress |-> FALSE]
    /\ calls = <<>>
    /\ budget = 0

InitClassify ==
    /\ GatewayIdle
    /\ QueueIdle
    /\ BatchIdle
    /\ ScanIdle
    /\ ExtraIdle
    /\ permission \in Grants
    /\ tenantDomains \in SUBSET Domains
    /\ sharingFilter \in Filters
    /\ verdict = [done |-> FALSE, classification |-> "none", include |-> FALSE]

\* The scan's use of the two functions on one grant (scanning.js, line 437).
Evaluate ==
    /\ ~verdict.done
    /\ verdict' = [done |-> TRUE,
                   classification |-> classifyPermission(permission, tenantDomains),
                   include |-> shouldIncludePermission(permission, tenantDomains,
                                                       sharingFilter)]
    /\ UNCHANGED <<permission, tenantDomains, sharingFilter>>

NextClassify ==
    \/ Evaluate /\ UNCHANGED <<gvars, qvars, bvars, svars, evars>>

SpecClassify == InitClassify /\ [][NextClassify]_vars

(***************************************************************************)
(* Claims about the classification.                                        *)
(***************************************************************************)
\* The entries of grantedToIdentitiesV2, none when it is not an array.
ItemsOf(p) ==
    IF p.grantedToIdentitiesV2.isArray
    THEN {p.grantedToIdentitiesV2.items[k] : k \in DOMAIN p.grantedToIdentitiesV2.items}
    ELSE {}

\* C13: a grant with grantedTo.user set, no link and no group or site-group
\* component is excluded under every filter mode and every tenant domain set.
C13_DirectUserGrantExcluded ==
    (/\ verdict.done
     /\ permission.grantedTo.kind = "user"
     /\ permission.link = "none"
     /\ permission.grantedToV2 \notin {"group", "siteGroup"}
     /\ \A g \in ItemsOf(permission) : g.kind # "group")
        => ~verdict.include

\* A direct grant to a user without an email, under the mode all.
C13_Witness ==
    /\ verdict.done
    /\ permission.grantedTo = Principal("user", <<>>)
    /\ permission.link = "none"
    /\ permission.grantedToV2 = "user"
    /\ ~permission.grantedToIdentitiesV2.isArray
    /\ sharingFilter = "all"
    /\ ~verdict.include

\* The emails of the user principals of a grant, with their multiplicity:
\* that of grantedTo first, then those of grantedToIdentitiesV2.
UserEmails(p) ==
    (IF p.grantedTo.kind = "user" THEN <<p.grantedTo.email>> ELSE <<>>)
    \o (IF p.grantedToIdentitiesV2.isArray
        THEN LET users == SelectSeq(p.grantedToIdentitiesV2.items,
                                    LAMBDA g : g.kind = "user")
             IN [k \in 1..Len(users) |-> users[k].email]
        ELSE <<>>)

\* The email has a domain, and it equals a tenant domain case-insensitively.
DomainIn(email, domains) ==
    /\ emailDomain(email) # <<>>
    /\ \E d \in domains : toLowerCase(d) = emailDomain(email)

\* The email has a domain, and it equals no tenant domain.
DomainNotIn(email, domains) ==
    /\ emailDomain(email) # <<>>
    /\ ~(\E d \in domains : toLowerCase(d) = emailDomain(email))

NoGroupPrincipal(p) ==
    /\ p.grantedToV2 \notin {"group", "siteGroup"}
    /\ \A g \in ItemsOf(p) : g.kind # "group"

\* Exactly two principals, one of a tenant domain and one of another domain.
TwoPrincipalsMixed(p, domains) ==
    /\ NoGroupPrincipal(p)
    /\ Len(UserEmails(p)) = 2
    /\ \E k \in 1..2 :
          /\ DomainIn(UserEmails(p)[k], domains)
          /\ DomainNotIn(UserEmails(p)[3 - k], domains)

\* C14 as claimed: a grant with two principals, one of a tenant domain and one
\* not, is classified mixed and included under the internal and the external
\* filter modes, whichever fields carry the two principals.
C14_MixedIncluded ==
    (/\ verdict.done
     /\ TwoPrincipalsMixed(permission, tenantDomains)
     /\ sharingFilter \in {"internal", "external"})
        => (verdict.classification = "mixed" /\ verdict.include)

\* C14 amended: such a grant is classified mixed and included under the
\* internal and the external filter modes when its link, if it has one, is of
\* neither the anonymous nor the organization scope, and it is not a direct
\* user grant (grantedTo.user without a link).
C14_MixedIncludedUnlessDirect ==
    (/\ verdict.done
     /\ TwoPrincipalsMixed(permission, tenantDomains)
     /\ sharingFilter \in {"internal", "external"}
     /\ permission.link \notin {"anonymous", "organization"}
     /\ ~(permission.grantedTo.kind = "user" /\ permission.link = "none"))
        => (verdict.classification = "mixed" /\ verdict.include)

\* A link shared with a@C and e@g, the tenant domain being c, under the
\* external filter.
C14_Witness ==
    /\ verdict.done
    /\ permission.link = "users"
    /\ permission.grantedTo.kind = "none"
    /\ permission.grantedToIdentitiesV2.items =
           <<Principal("user", <<"a", "@", "C">>), Principal("user", <<"e", "@", "g">>)>>
    /\ tenantDomains = {<<"c">>}
    /\ sharingFilter = "external"
    /\ verdict.classification = "mixed"
    /\ verdict.include

\* C15 as claimed: a grant whose grantedToV2 carries a group or a site-group
\* is classified internal, whatever else it carries and whatever the tenant
\* domain set, and so it is included under the internal filter mode.
C15_GroupsInternal ==
    (verdict.done /\ permission.grantedToV2 \in {"group", "siteGroup"})
        => /\ verdict.classification = "internal"
           /\ sharingFilter = "internal" => verdict.include

\* The decision table of C16 for a grant without a group principal; vacant
\* is what a user principal whose email has no domain votes.
TableVotes(p, domains, vacant) ==
    UNION {IF UserEmails(p)[k] = <<>> THEN {}
           ELSE IF emailDomain(UserEmails(p)[k]) = <<>> THEN vacant
           ELSE IF DomainIn(UserEmails(p)[k], domains) THEN {"internal"}
           ELSE {"external"} : k \in 1..Len(UserEmails(p))}

Table(p, domains, vacant) ==
    IF p.link = "anonymous" THEN "external"
    ELSE IF p.link = "organization" THEN "internal"
    ELSE IF TableVotes(p, domains, vacant) = {"internal", "external"} THEN "mixed"
    ELSE IF TableVotes(p, domains, vacant) = {"external"} THEN "external"
    ELSE IF TableVotes(p, domains, vacant) = {"internal"} THEN "internal"
    ELSE "unknown"

\* C16 as claimed: for a grant without a group principal classifyPermission
\* returns what the decision table gives, a principal whose email has no
\* domain voting external (its domain equals no tenant domain) or not at all
\* (it is not resolvable).
C16_DecisionTable ==
    (verdict.done /\ NoGroupPrincipal(permission))
        => verdict.classification \in
              {Table(permission, tenantDomains, {"external"}),
               Table(permission, tenantDomains, {})}

\* C17: for a grant that is not a direct user grant, shouldIncludePermission
\* returns true under all, under external exactly when the classification is
\* external or mixed, and under internal exactly when it is internal or mixed.
C17_FilterModes ==
    (/\ verdict.done
     /\ ~(/\ permission.grantedTo.kind = "user"
          /\ permission.link = "none"
          /\ permission.grantedToV2 \notin {"group", "siteGroup"}))
        => /\ sharingFilter = "all" => verdict.include
           /\ sharingFilter = "external"
                 => (verdict.include <=>
                        verdict.classification \in {"external", "mixed"})
           /\ sharingFilter = "internal"
                 => (verdict.include <=>
                        verdict.classification \in {"internal", "mixed"})

\* A link shared with one user of the tenant and one of another domain is
\* kept by the internal filter.
C17_Witness ==
    /\ verdict.done
    /\ permission.link = "users"
    /\ permission.grantedTo.kind = "application"
    /\ TwoPrincipalsMixed(permission, tenantDomains)
    /\ sharingFilter = "internal"
    /\ verdict.classification = "mixed"
    /\ verdict.include

(***************************************************************************)
(* The scan of one drive: scanDriveWithDelta tries the delta feed          *)
(* (Strategy A, processEnhancedDeltaItems) and on any exception falls back *)
(* to the recursive walk (Strategy B, scanDriveComprehensive and           *)
(* traverseFolderEnhanced).                                                *)
(*                                                                         *)
(* An item of the drive is [name, folder, parent, permissions]: folder is  *)
(* the folder facet (an item without it is a file), parent is the id of    *)
(* the containing folder, 0 for the drive root, and permissions is the     *)
(* list of grants the remote side holds for the item.  Item ids are the    *)
(* positions in the container, parents before children.                    *)
(***************************************************************************)

\* Failed remote requests one walk may meet.
MaxScanFaults == 1

\* The names in use, and the two name tests on them: of these names only
\* "Preservation Hold Library" contains one of PRESERVATION_HOLD_PATTERNS,
\* and only "Forms" contains one of SKIP_FOLDERS (none starts with _ or .).
Names == {"Preservation Hold Library", "Reports", "Forms", "Archive", "q4.xlsx"}

isPreservationHoldLibrary(libraryName) ==
    libraryName \in {"Preservation Hold Library"}

shouldSkipPreservationHoldLibrary(libraryName, settings) ==
    IF ~settings.excludeHolds THEN FALSE
    ELSE isPreservationHoldLibrary(libraryName)

shouldSkipFolder(folderName) == folderName \in {"Forms"}

\* Three grants: an anonymous link, an organization link, a direct grant to
\* one user.
NoIdentities == [isArray |-> FALSE, items |-> <<>>]

AnonymousLink ==
    [link |-> "anonymous", grantedToV2 |-> "none", grantedTo |-> NoPrincipal,
     grantedToIdentitiesV2 |-> NoIdentities]

OrganizationLink ==
    [link |-> "organization", grantedToV2 |-> "none", grantedTo |-> NoPrincipal,
     grantedToIdentitiesV2 |-> NoIdentities]

DirectUser ==
    [link |-> "none", grantedToV2 |-> "user",
     grantedTo |-> Principal("user", <<"a", "@", "C">>),
     grantedToIdentitiesV2 |-> NoIdentities]

Item(name, folder, parent, permissions) ==
    [name |-> name, folder |-> folder, parent |-> parent,
     permissions |-> permissions]

\* A folder of the drive root.
TopItems(names, grants) == {Item(n, TRUE, 0, ps) : n \in names, ps \in grants}

\* What a folder holds: a file or a sub-folder.
Files(parent) ==
    {Item("q4.xlsx", FALSE, parent, ps) :
        ps \in {<<>>, <<AnonymousLink>>, <<OrganizationLink>>}}

Folders(parent) ==
    {Item("Archive", TRUE, parent, ps) : ps \in {<<>>, <<AnonymousLink>>}}

\* The drives scanned: two folders under the root, one item in each.
Containers ==
    {<<a, b, x, y>> :
        a \in TopItems({"Preservation Hold Library", "Reports", "Forms"}, {<<>>}),
        b \in TopItems({"Reports"}, {<<>>, <<OrganizationLink, DirectUser>>}),
        x \in Files(1) \cup Folders(1),
        y \in Files(2)}

ScanSettings == [contentScope : {"all", "folders"}, excludeHolds : BOOLEAN]

ScanFilters == {"all", "external", "internal"}

\* permissions.filter(p => shouldIncludePermission(p, tenantDomains, sharingFilter))
Interesting(permissions, domains, filter) ==
    SelectSeq(permissions, LAMBDA p : shouldIncludePermission(p, domains, filter))

\* The ScanResult pushed for item i: the filtered and the complete grants.
ScanResult(i, permissions, domains, filter) ==
    [itemId |-> i,
     permissions |-> Interesting(permissions, domains, filter),
     allPermissions |-> permissions]

\* What the results loop of either strategy pushes for item i with the
\* permissions it was given: nothing when no grant passes the filter.
Pushed(i, permissions, domains, filter) ==
    IF Interesting(permissions, domains, filter) = <<>> THEN <<>>
    ELSE <<ScanResult(i, permissions, domains, filter)>>

\* Strategy A, one iteration of the loop of processEnhancedDeltaItems over
\* the delta feed: the three skips, then the filter.
DeltaPushed(c, settings, i, domains, filter) ==
    IF c[i].folder /\ shouldSkipPreservationHoldLibrary(c[i].name, settings)
    THEN <<>>
    ELSE IF settings.contentScope = "folders" /\ ~c[i].folder THEN <<>>
    ELSE IF c[i].permissions = <<>> THEN <<>>
    ELSE Pushed(i, c[i].permissions, domains, filter)

\* The catch of scanDriveWithDelta: log, then delay(300) before the walk.
OnDeltaErrorRethrown(s) == [s EXCEPT !.pc = "failed"]
OnDeltaError(s) == [s EXCEPT !.pc = "cooldown"]

\* The delta query answers with every item of the drive, permissions
\* expanded (performDeltaQuery).  scanDriveWithDelta names the query
\* performOptimizedSharedItemsQuery, which apiModule does not export: where
\* that is so the call itself throws, which is DeltaThrows.
DeltaReturns ==
    /\ scan.pc = "query"
    /\ scan' = [pc |-> IF container = <<>> THEN "done" ELSE "delta", k |-> 1]
    /\ shist' = [shist EXCEPT !.strategyA =
                    IF container = <<>> THEN "completed" ELSE "running"]
    /\ UNCHANGED <<container, scanSettings, walk, found, controller>>

DeltaThrows ==
    /\ scan.pc = "query"
    /\ scan' = OnDeltaError(scan)
    /\ shist' = [shist EXCEPT !.strategyA = "queryThrew"]
    /\ UNCHANGED <<container, scanSettings, walk, found, controller>>

\* One iteration of the loop: the stop check, the skips, the push.  The
\* function returns after the last item.
DeltaItem ==
    /\ scan.pc = "delta"
    /\ IF controller.stop
       THEN /\ scan' = [scan EXCEPT !.pc = "done"]
            /\ shist' = [shist EXCEPT !.strategyA = "stopped"]
            /\ UNCHANGED found
       ELSE /\ found' = found \o DeltaPushed(container, scanSettings, scan.k,
                                             tenantDomains, sharingFilter)
            /\ IF scan.k = Len(container)
               THEN /\ scan' = [scan EXCEPT !.pc = "done"]
                    /\ shist' = [shist EXCEPT !.strategyA = "completed"]
               ELSE /\ scan' = [scan EXCEPT !.k = @ + 1]
                    /\ UNCHANGED shist
    /\ UNCHANGED <<container, scanSettings, walk, controller>>

\* The display calls that follow the push throw: the result stays pushed and
\* the exception reaches the catch of scanDriveWithDelta.
DeltaItemThrows ==
    /\ scan.pc = "delta"
    /\ ~controller.stop
    /\ DeltaPushed(container, scanSettings, scan.k, tenantDomains,
                   sharingFilter) # <<>>
    /\ found' = found \o DeltaPushed(container, scanSettings, scan.k,
                                     tenantDomains, sharingFilter)
    /\ scan' = OnDeltaError(scan)
    /\ shist' = [shist EXCEPT !.strategyA = "itemThrew"]
    /\ UNCHANGED <<container, scanSettings, walk, controller>>

\* recursionBatchSize of traverseFolderEnhanced.
recursionBatchSize == 3

\* One traverseFolderEnhanced activation: where it is, permissionResults (the
\* items of itemsToCheck before the answer), the index r of the results
\* loop and the index i of the recursion loop.  An activation runs from its
\* call to its own return, whether or not its caller is still there.
IdleWalk == [stage |-> "idle", results |-> <<>>, r |-> 0, i |-> 0]

\* A call of traverseFolderEnhanced(f): it returns at once when the scan is
\* stopped, otherwise it asks for the children of f.
Traverse(w, f, c) ==
    [w EXCEPT ![f] = [IdleWalk EXCEPT !.stage =
                         IF Cancelled(c) THEN "returned" ELSE "children"]]

\* delay(300) is over: scanDriveComprehensive starts the walk at the root.
\* What Strategy A pushed stays in the list.
CooldownDoneDiscarding ==
    /\ scan.pc = "cooldown"
    /\ scan' = [scan EXCEPT !.pc = "walk"]
    /\ walk' = Traverse(walk, 0, controller)
    /\ shist' = [shist EXCEPT !.cooled = TRUE]
    /\ found' = <<>>
    /\ UNCHANGED <<container, scanSettings, controller>>
CooldownDone ==
    /\ scan.pc = "cooldown"
    /\ scan' = [scan EXCEPT !.pc = "walk"]
    /\ walk' = Traverse(walk, 0, controller)
    /\ shist' = [shist EXCEPT !.cooled = TRUE]
    /\ UNCHANGED <<container, scanSettings, found, controller>>

\* getFolderChildren(drive, f, includeFiles): the children of f, without the
\* files unless includeFiles.
ChildrenOfAncestors(c, f, includeFiles) ==
    SelectSeq([i \in 1..Len(c) |-> i],
              LAMBDA i : c[i].parent <= f /\ (includeFiles \/ c[i].folder))
ChildrenOf(c, f, includeFiles) ==
    SelectSeq([i \in 1..Len(c) |-> i],
              LAMBDA i : c[i].parent = f /\ (includeFiles \/ c[i].folder))

\* The filter that makes validItems.
ValidItem(c, settings, i) ==
    IF c[i].folder /\ shouldSkipPreservationHoldLibrary(c[i].name, settings)
    THEN FALSE
    ELSE IF c[i].folder /\ shouldSkipFolder(c[i].name) THEN FALSE
    ELSE IF settings.contentScope = "folders" THEN c[i].folder
    ELSE TRUE

\* getFolderChildren answers (an error inside it gives the empty list): the
\* filter, the stop check of the loop that builds itemsToCheck, then the
\* delay(20) that precedes the call of batchGetPermissions.
WalkChildren(f, ok) ==
    /\ walk[f].stage = "children"
    /\ ok \/ shist.faults < MaxScanFaults
    /\ LET children == IF ok THEN ChildrenOf(container, f,
                                     scanSettings.contentScope = "all")
                       ELSE <<>>
           validItems == SelectSeq(children,
                             LAMBDA i : ValidItem(container, scanSettings, i))
       IN  walk' = [walk EXCEPT ![f] =
                IF validItems = <<>> \/ Cancelled(controller)
                THEN [@ EXCEPT !.stage = "returned"]
                ELSE [stage |-> "pacing",
                      results |-> [n \in 1..Len(validItems) |->
                                     [item |-> validItems[n], permissions |-> <<>>]],
                      r |-> 0, i |-> 0]]
    /\ shist' = [shist EXCEPT !.faults = IF ok THEN @ ELSE @ + 1]
    /\ UNCHANGED <<container, scanSettings, scan, found, controller>>

\* What batchGetPermissions does when called: with the scan stopped its loop
\* breaks before the first request and it answers with no entry.
BatchStageUnchecked(c) == "permissions"
BatchStage(c) == IF Cancelled(c) THEN "results" ELSE "permissions"

\* delay(20) is over: batchGetPermissions(itemsToCheck, controller) is called.
WalkBatch(f) ==
    /\ walk[f].stage = "pacing"
    /\ walk' = [walk EXCEPT ![f] =
            IF BatchStage(controller) = "results"
            THEN [@ EXCEPT !.stage = "results", !.results = <<>>, !.r = 1]
            ELSE [@ EXCEPT !.stage = "permissions"]]
    /\ UNCHANGED <<container, scanSettings, scan, found, shist, controller>>

\* batchGetPermissions answers with one entry per item: the item's grants,
\* or none for an item whose request failed.
WalkPermissions(f, ok) ==
    /\ walk[f].stage = "permissions"
    /\ ok \/ shist.faults < MaxScanFaults
    /\ walk' = [walk EXCEPT ![f] =
            [stage |-> "results",
             results |-> [n \in 1..Len(@.results) |->
                            [item |-> @.results[n].item,
                             permissions |->
                                IF ok THEN container[@.results[n].item].permissions
                                ELSE <<>>]],
             r |-> 1, i |-> 0]]
    /\ shist' = [shist EXCEPT !.faults = IF ok THEN @ ELSE @ + 1]
    /\ UNCHANGED <<container, scanSettings, scan, found, controller>>

\* if (result.item.folder): the item is descended into, whatever the grants
\* that passed the filter.
DescendsUnlessShared(c, i, interesting) == c[i].folder /\ interesting = <<>>
Descends(c, i, interesting) == c[i].folder

\* One iteration of the loop over permissionResults: the stop check, the
\* push, and for a folder the call of traverseFolderEnhanced on it.
WalkResult(f) ==
    /\ walk[f].stage = "results"
    /\ walk[f].r <= Len(walk[f].results)
    /\ LET result == walk[f].results[walk[f].r]
       IN  IF Cancelled(controller)
           THEN /\ walk' = [walk EXCEPT ![f].stage = "returned"]
                /\ UNCHANGED found
           ELSE /\ found' = found \o Pushed(result.item, result.permissions,
                                            tenantDomains, sharingFilter)
                /\ walk' = [(IF Descends(container, result.item,
                                         Interesting(result.permissions,
                                                     tenantDomains, sharingFilter))
                             THEN Traverse(walk, result.item, controller)
                             ELSE walk)
                            EXCEPT ![f].r = @ + 1]
    /\ UNCHANGED <<container, scanSettings, scan, shist, controller>>

\* recursionTasks of f: the folders among its results, in order; a descent
\* is started when its folder is pushed on the list.
TaskSeq(w, f, c) ==
    SelectSeq([n \in 1..Len(w[f].results) |-> w[f].results[n].item],
              LAMBDA g : c[g].folder)

RecursionTasks(w, f, c) ==
    {TaskSeq(w, f, c)[n] : n \in 1..Len(TaskSeq(w, f, c))}

\* recursionTasks.slice(i, i + recursionBatchSize)
RecursionBatch(w, f, c) ==
    {TaskSeq(w, f, c)[n] : n \in {m \in 1..Len(TaskSeq(w, f, c)) :
                                    m > w[f].i /\ m <= w[f].i + recursionBatchSize}}

\* After the results loop, the head of the recursion loop: with no descent
\* on the list, or the scan stopped, the call returns; otherwise it awaits
\* the first batch of descents.
WalkRecurse(f) ==
    /\ walk[f].stage = "results"
    /\ walk[f].r > Len(walk[f].results)
    /\ walk' = [walk EXCEPT ![f].stage =
            IF RecursionTasks(walk, f, container) = {} \/ Cancelled(controller)
            THEN "returned" ELSE "recursion"]
    /\ UNCHANGED <<container, scanSettings, scan, found, shist, controller>>

\* Promise.all over the awaited batch is settled and delay(300) is over:
\* the head of the recursion loop again, for the next batch.
WalkReturns(f) ==
    /\ walk[f].stage = "recursion"
    /\ \A g \in RecursionBatch(walk, f, container) : walk[g].stage = "returned"
    /\ walk' = [walk EXCEPT ![f] =
            IF \/ @.i + recursionBatchSize >= Len(TaskSeq(walk, f, container))
               \/ Cancelled(controller)
            THEN [@ EXCEPT !.stage = "returned"]
            ELSE [@ EXCEPT !.i = @ + recursionBatchSize]]
    /\ UNCHANGED <<container, scanSettings, scan, found, shist, controller>>

\* The walk of the root has returned: so do scanDriveComprehensive and
\* scanDriveWithDelta.
WalkDone ==
    /\ scan.pc = "walk"
    /\ walk[0].stage = "returned"
    /\ scan' = [scan EXCEPT !.pc = "done"]
    /\ UNCHANGED <<container, scanSettings, walk, found, shist, controller>>

\* The Stop button.
ScanStop ==
    /\ scan.pc \notin {"done", "failed"}
    /\ ~controller.stop
    /\ controller' = [controller EXCEPT !.stop = TRUE]
    /\ UNCHANGED svars

InitScan ==
    /\ GatewayIdle
    /\ QueueIdle
    /\ BatchIdle
    /\ ExtraIdle
    /\ permission = [link |-> "none", grantedToV2 |-> "none",
                     grantedTo |-> NoPrincipal,
                     grantedToIdentitiesV2 |-> NoIdentities]
    /\ verdict = [done |-> FALSE, classification |-> "none", include |-> FALSE]
    /\ tenantDomains = {<<"c">>}
    /\ sharingFilter \in ScanFilters
    /\ container \in Containers
    /\ scanSettings \in ScanSettings
    /\ scan = [pc |-> "query", k |-> 0]
    /\ walk = [f \in 0..Len(container) |-> IdleWalk]
    /\ found = <<>>
    /\ shist = [strategyA |-> "none", cooled |-> FALSE, faults |-> 0]

sframe == <<gvars, qvars, requests, results, bgp, bhist, cvars, evars>>

NextScan ==
    \/ DeltaReturns /\ UNCHANGED sframe
    \/ DeltaThrows /\ UNCHANGED sframe
    \/ DeltaItem /\ UNCHANGED sframe
    \/ DeltaItemThrows /\ UNCHANGED sframe
    \/ CooldownDone /\ UNCHANGED sframe
    \/ \E f \in DOMAIN walk, ok \in BOOLEAN : WalkChildren(f, ok) /\ UNCHANGED sframe
    \/ \E f \in DOMAIN walk : WalkBatch(f) /\ UNCHANGED sframe
    \/ \E f \in DOMAIN walk, ok \in BOOLEAN : WalkPermissions(f, ok) /\ UNCHANGED sframe
    \/ \E f \in DOMAIN walk : WalkResult(f) /\ UNCHANGED sframe
    \/ \E f \in DOMAIN walk : WalkRecurse(f) /\ UNCHANGED sframe
    \/ \E f \in DOMAIN walk : WalkReturns(f) /\ UNCHANGED sframe
    \/ WalkDone /\ UNCHANGED sframe
    \/ ScanStop /\ UNCHANGED sframe

SpecScan == InitScan /\ [][NextScan]_vars

\* The walk alone, on drives with four folders under the root and one item
\* in the first of them, from the point where the delta query has thrown.
WideContainers ==
    {<<a, b, c, d, x>> :
        a \in TopItems({"Reports"}, {<<>>, <<AnonymousLink>>}),
        b \in TopItems({"Archive"}, {<<>>, <<AnonymousLink>>}),
        c \in TopItems({"Archive"}, {<<>>}),
        d \in TopItems({"Archive"}, {<<>>}),
        x \in Files(1) \cup Folders(1)}

InitWalk ==
    /\ GatewayIdle
    /\ QueueIdle
    /\ BatchIdle
    /\ ExtraIdle
    /\ permission = [link |-> "none", grantedToV2 |-> "none",
                     grantedTo |-> NoPrincipal,
                     grantedToIdentitiesV2 |-> NoIdentities]
    /\ verdict = [done |-> FALSE, classification |-> "none", include |-> FALSE]
    /\ tenantDomains = {<<"c">>}
    /\ sharingFilter = "all"
    /\ container \in WideContainers
    /\ scanSettings \in [contentScope : {"all", "folders"}, excludeHolds : {FALSE}]
    /\ scan = [pc |-> "cooldown", k |-> 0]
    /\ walk = [f \in 0..Len(container) |-> IdleWalk]
    /\ found = <<>>
    /\ shist = [strategyA |-> "queryThrew", cooled |-> FALSE, faults |-> 0]

NextWalk ==
    \/ CooldownDone /\ UNCHANGED sframe
    \/ \E f \in DOMAIN walk, ok \in BOOLEAN : WalkChildren(f, ok) /\ UNCHANGED sframe
    \/ \E f \in DOMAIN walk : WalkBatch(f) /\ UNCHANGED sframe
    \/ \E f \in DOMAIN walk, ok \in BOOLEAN : WalkPermissions(f, ok) /\ UNCHANGED sframe
    \/ \E f \in DOMAIN walk : WalkResult(f) /\ UNCHANGED sframe
    \/ \E f \in DOMAIN walk : WalkRecurse(f) /\ UNCHANGED sframe
    \/ \E f \in DOMAIN walk : WalkReturns(f) /\ UNCHANGED sframe
    \/ WalkDone /\ UNCHANGED sframe
    \/ ScanStop /\ UNCHANGED sframe

SpecWalk == InitWalk /\ [][NextWalk]_vars

\* The walk with progress: every remote request is answered, every delay
\* ends and every loop iteration that is reached runs.  The Stop button is
\* up to the user.
WalkSteps ==
    \/ CooldownDone /\ UNCHANGED sframe
    \/ \E f \in DOMAIN walk, ok \in BOOLEAN : WalkChildren(f, ok) /\ UNCHANGED sframe
    \/ \E f \in DOMAIN walk : WalkBatch(f) /\ UNCHANGED sframe
    \/ \E f \in DOMAIN walk, ok \in BOOLEAN : WalkPermissions(f, ok) /\ UNCHANGED sframe
    \/ \E f \in DOMAIN walk : WalkResult(f) /\ UNCHANGED sframe
    \/ \E f \in DOMAIN walk : WalkRecurse(f) /\ UNCHANGED sframe
    \/ \E f \in DOMAIN walk : WalkReturns(f) /\ UNCHANGED sframe
    \/ WalkDone /\ UNCHANGED sframe

SpecWalkLive == InitWalk /\ [][NextWalk]_vars /\ WF_vars(WalkSteps)

(***************************************************************************)
(* Scan runs.  Run 1 walks the drive; when its scan of the drive has       *)
(* returned, the scan function ends (the loops over sites and drives break *)
(* on the stop flag or are at their end) and clears configModule.scanning, *)
(* so the next click on a scan button passes the guard: the scan function  *)
(* sets the flag and calls resetScanController.  The work of the later run *)
(* is on other drives and is not followed here.                            *)
(***************************************************************************)
MaxRuns == 2

\* resetScanController(): controller = { stop: false }.  Every test of
\* configModule.controller.stop in the walk reads the module's current
\* controller.
resetScanController(c) == [stop |-> FALSE]

\* The next scan function is called after the scan of the drive returned.
ScanStarts ==
    /\ scan.pc = "done"
    /\ run.k < MaxRuns
    /\ controller' = resetScanController(controller)
    /\ run' = [k |-> run.k + 1, stopped |-> controller.stop]
    /\ UNCHANGED svars

InitRuns ==
    /\ GatewayIdle
    /\ QueueIdle
    /\ BatchIdle
    /\ ListingIdle
    /\ OrchIdle
    /\ PathIdle
    /\ DomainLoadIdle
    /\ run = [k |-> 1, stopped |-> FALSE]
    /\ permission = [link |-> "none", grantedToV2 |-> "none",
                     grantedTo |-> NoPrincipal,
                     grantedToIdentitiesV2 |-> NoIdentities]
    /\ verdict = [done |-> FALSE, classification |-> "none", include |-> FALSE]
    /\ tenantDomains = {<<"c">>}
    /\ sharingFilter = "all"
    /\ container \in WideContainers
    /\ scanSettings \in [contentScope : {"all", "folders"}, excludeHolds : {FALSE}]
    /\ scan = [pc |-> "cooldown", k |-> 0]
    /\ walk = [f \in 0..Len(container) |-> IdleWalk]
    /\ found = <<>>
    /\ shist = [strategyA |-> "queryThrew", cooled |-> FALSE, faults |-> 0]

NextRuns ==
    \/ CooldownDone /\ UNCHANGED sframe
    \/ \E f \in DOMAIN walk, ok \in BOOLEAN : WalkChildren(f, ok) /\ UNCHANGED sframe
    \/ \E f \in DOMAIN walk : WalkBatch(f) /\ UNCHANGED sframe
    \/ \E f \in DOMAIN walk, ok \in BOOLEAN : WalkPermissions(f, ok) /\ UNCHANGED sframe
    \/ \E f \in DOMAIN walk : WalkResult(f) /\ UNCHANGED sframe
    \/ \E f \in DOMAIN walk : WalkRecurse(f) /\ UNCHANGED sframe
    \/ \E f \in DOMAIN walk : WalkReturns(f) /\ UNCHANGED sframe
    \/ WalkDone /\ UNCHANGED sframe
    \/ ScanStop /\ UNCHANGED sframe
    \/ ScanStarts /\ UNCHANGED <<gvars, qvars, requests, results, bgp, bhist, cvars,
                                 listing, orch, path, domainLoad>>

SpecRuns == InitRuns /\ [][NextRuns]_vars

(***************************************************************************)
(* Claims about the scan of one drive.                                     *)
(***************************************************************************)

\* Item i lies inside a folder whose name matches a preservation-hold
\* pattern, at any depth.
RECURSIVE InsideHold(_, _)
InsideHold(c, i) ==
    /\ c[i].parent # 0
    /\ \/ isPreservationHoldLibrary(c[c[i].parent].name)
       \/ InsideHold(c, c[i].parent)

\* The drive of the scenario: a hold-named folder holding an anonymously
\* linked file, a folder Reports holding an organization-linked file.
HoldScenario ==
    /\ container = <<Item("Preservation Hold Library", TRUE, 0, <<>>),
                     Item("Reports", TRUE, 0, <<>>),
                     Item("q4.xlsx", FALSE, 1, <<AnonymousLink>>),
                     Item("q4.xlsx", FALSE, 2, <<OrganizationLink>>)>>
    /\ scanSettings = [contentScope |-> "all", excludeHolds |-> TRUE]
    /\ sharingFilter = "all"

\* The scan of the drive ended with one strategy having seen every item:
\* the delta pass completed, or the delta query failed and the walk ran
\* without a failed request; the scan was not stopped.
FullPass ==
    /\ scan.pc = "done"
    /\ ~controller.stop
    /\ \/ shist.strategyA = "completed"
       \/ shist.strategyA = "queryThrew" /\ shist.faults = 0

\* C18: with the preservation-hold exclusion enabled no ScanResult is pushed
\* for an item inside a hold-named folder, whichever strategy found it; and
\* the scan of the scenario drive pushes exactly one ScanResult, the one of
\* the Reports file.
C18_NothingFromHoldLibrary ==
    /\ scanSettings.excludeHolds =>
          \A n \in 1..Len(found) : ~InsideHold(container, found[n].itemId)
    /\ (HoldScenario /\ FullPass) =>
          found = <<ScanResult(4, <<OrganizationLink>>, tenantDomains, sharingFilter)>>

\* The items the walk lists in some itemsToCheck: those that pass the filter
\* of validItems and whose folders, up to the root, passed it too.
RECURSIVE Walked(_, _, _)
Walked(c, settings, i) ==
    /\ ValidItem(c, settings, i)
    /\ c[i].parent # 0 => Walked(c, settings, c[i].parent)

\* The findings of a walk that met no failure: one ScanResult per walked
\* item with a grant that passes the filter.
WalkFindings(c, settings, domains, filter) ==
    {ScanResult(i, c[i].permissions, domains, filter) :
        i \in {j \in 1..Len(c) :
                  /\ Walked(c, settings, j)
                  /\ Interesting(c[j].permissions, domains, filter) # <<>>}}

Findings == {found[n] : n \in 1..Len(found)}

\* C19: a delta pass that completed has pushed the findings a walk of the
\* same drive under the same settings pushes: the same items, each with the
\* same filtered grants.
C19_SameFindings ==
    (scan.pc = "done" /\ shist.strategyA = "completed") =>
        Findings = WalkFindings(container, scanSettings, tenantDomains,
                                sharingFilter)

AThrew == shist.strategyA \in {"queryThrew", "itemThrew"}

\* C20: an exception of the delta query or of the processing of a delta
\* item never ends the scan of the drive as failed: it is followed by the
\* cooldown and then by the walk, which has returned when the scan of the
\* drive is done; and the walk runs only after such an exception and the
\* cooldown.
C20_FallbackAfterCooldown ==
    /\ scan.pc # "failed"
    /\ AThrew => scan.pc \in {"cooldown", "walk", "done"}
    /\ walk[0].stage # "idle" => AThrew /\ shist.cooled
    /\ (AThrew /\ scan.pc = "done") => walk[0].stage = "returned"

\* A delta item's processing threw after its push, and the walk that
\* followed pushed results of its own.
C20_Witness ==
    /\ scan.pc = "done"
    /\ shist.strategyA = "itemThrew"
    /\ walk[0].stage = "returned"
    /\ Len(found) > 1

(***************************************************************************)
(* A paginated listing: graphGetAll (the children of a folder, the drives  *)
(* of a site, the permissions of an item) and performDeltaQuery.  The      *)
(* remote side holds the answer in pages; a page that is not the last      *)
(* carries @odata.nextLink.  listing.page is the page whose request is the *)
(* latest issued, listing.items the pages received.                        *)
(***************************************************************************)

\* The pages one listing may have.
MaxPages == 5

ListingKinds == {"graphGetAll", "performDeltaQuery"}

\* A page is answered: its items are added; with a nextLink the loop goes
\* on after a delay, without one it ends, in graphGetAll after delay(200)
\* when RateLimit-Remaining is low and in performDeltaQuery after its
\* delay(200).
PageAnswer(low) ==
    /\ listing.pc = "request"
    /\ listing' = [listing EXCEPT
            !.items = @ + 1,
            !.pc = IF listing.page < listing.pages THEN "delay"
                   ELSE IF listing.kind = "performDeltaQuery" \/ low THEN "delay"
                   ELSE "returned"]
    /\ UNCHANGED controller

\* graphRequestWithRetry throws: the listing throws, with no item.
PageThrows ==
    /\ listing.pc = "request"
    /\ listing' = [listing EXCEPT !.pc = "threw"]
    /\ UNCHANGED controller

\* The delay is over: the head of the while loop, which requests the next
\* page when there is one.
NextPage ==
    /\ listing.pc = "delay"
    /\ listing' = IF listing.page < listing.pages
                  THEN [listing EXCEPT !.pc = "request", !.page = @ + 1]
                  ELSE [listing EXCEPT !.pc = "returned"]
    /\ UNCHANGED controller

\* The Stop button, while the listing is under way.
ListingStop ==
    /\ listing.pc \in {"request", "delay"}
    /\ ~controller.stop
    /\ controller' = [controller EXCEPT !.stop = TRUE]
    /\ UNCHANGED listing

\* The request of the first page is issued, in a scan that is not stopped.
InitListing ==
    /\ GatewayIdle
    /\ QueueIdle
    /\ BatchIdle
    /\ ClassifyIdle
    /\ ScanIdle
    /\ OrchIdle
    /\ PathIdle
    /\ RunIdle
    /\ DomainLoadIdle
    /\ \E k \in ListingKinds, n \in 1..MaxPages :
          listing = [kind |-> k, pc |-> "request", pages |-> n, page |-> 1,
                     items |-> 0]

lframe == <<gvars, qvars, requests, results, bgp, bhist, cvars, svars, orch, path,
            run, domainLoad>>

NextListing ==
    \/ \E low \in BOOLEAN : PageAnswer(low) /\ UNCHANGED lframe
    \/ PageThrows /\ UNCHANGED lframe
    \/ NextPage /\ UNCHANGED lframe
    \/ ListingStop /\ UNCHANGED lframe

SpecListing == InitListing /\ [][NextListing]_vars

\* C22: once the stop flag is set no new remote request is started: a
\* listing under way requests no further page.
C22_NoRequestAfterStop ==
    [][controller.stop => listing'.page = listing.page]_vars

(***************************************************************************)
(* The orchestrators: scanSharePointSites over the selected sites and      *)
(* scanOneDriveUsers over the selected users.  A unit is one site (its     *)
(* drives are listed, then each is scanned) or one user (the drive is      *)
(* resolved, then scanned).  orch.errors is history: the error, if any,    *)
(* that arose while unit k was processed, and where.                       *)
(***************************************************************************)

\* The units one scan may have, and the scan requests of one run.
MaxScanUnits == 3
MaxScanRequests == 3

\* Every third user the token is validated before the user's drive.
validationPeriod == 3

\* The errors of one unit: an authentication-expiry error or another one,
\* arising in the token validation before the unit (OneDrive only), in the
\* resolution of the unit's drives, in a children listing or in a
\* permission fetch of the scan of a drive.
UnitErrors(scanType) ==
    [where : {"resolution", "children", "permissions"}, kind : {"auth", "other"}]
    \cup (IF scanType = "onedrive" THEN {[where |-> "validation", kind |-> "auth"]}
          ELSE {})

\* Does the error reach the scan function?  An error of a children listing
\* is caught by getFolderChildren, one of a permission fetch by
\* batchGetPermissions, and whatever else the scan of a drive throws by
\* scanDriveWithDelta and scanDriveComprehensive.
Reaches(e) == e.where \in {"validation", "resolution"}

\* What the scan function does with an error that reaches it: the token
\* validation is outside the per-user try; the per-site catch logs; the
\* per-user catch logs and re-throws a message with 'Authentication token
\* expired'.
UnitCatchRethrowsAll(scanType, e) ==
    IF e.where = "validation" THEN "rethrow"
    ELSE IF scanType = "sharepoint" THEN "swallow"
    ELSE "rethrow"
UnitCatch(scanType, e) ==
    IF e.where = "validation" THEN "rethrow"
    ELSE IF scanType = "sharepoint" THEN "swallow"
    ELSE IF e.kind = "auth" THEN "rethrow" ELSE "swallow"

\* The guard of both scan functions: if (configModule.scanning) return.
OverlappingNever(o) == FALSE
Overlapping(o) == o.scanning

\* The finally block: configModule.scanning = false.
EndedFlagKept(o, outcome) == [o EXCEPT !.pc = "done", !.outcome = outcome]
Ended(o, outcome) == [o EXCEPT !.pc = "done", !.scanning = FALSE,
                               !.outcome = outcome]

\* A click on a scan button calls scanSharePointSites or scanOneDriveUsers
\* with n units selected: past the guard it sets the flag, resets the
\* controller and asks for the tenant domains.
ScanRequest(t, n) ==
    /\ orch.requests < MaxScanRequests
    /\ IF Overlapping(orch)
       THEN /\ orch' = [orch EXCEPT !.requests = @ + 1]
            /\ UNCHANGED <<controller, tenantDomains>>
       ELSE /\ orch' = [scanType |-> t, scanning |-> TRUE, pc |-> "domains",
                        units |-> n, u |-> 0, outcome |-> "none",
                        errors |-> [k \in 1..n |-> NoError],
                        requests |-> orch.requests + 1, past |-> orch.past + 1]
            /\ controller' = [stop |-> FALSE]
            /\ UNCHANGED tenantDomains

\* loadTenantDomains has answered and delay(100) is over: the scan returns
\* when it is stopped, or (OneDrive) when no user is selected.
DomainsLoaded ==
    /\ orch.pc = "domains"
    /\ tenantDomains' = {<<"c">>}
    /\ orch' = IF Cancelled(controller) THEN Ended(orch, "stopped")
               ELSE IF orch.scanType = "onedrive" /\ orch.units = 0
                    THEN Ended(orch, "returned")
               ELSE [orch EXCEPT !.pc = "loop"]
    /\ UNCHANGED controller

\* The head of the loop over the units: break when stopped, end after the
\* last unit; otherwise the next unit begins, for every third user after
\* ensureValidTokenForScanning, whose failure ends the scan as failed.
UnitBegins(valid) ==
    /\ orch.pc = "loop"
    /\ orch' =
         IF Cancelled(controller) THEN Ended(orch, "stopped")
         ELSE IF orch.u = orch.units THEN Ended(orch, "completed")
         ELSE IF /\ orch.scanType = "onedrive"
                 /\ (orch.u + 1) % validationPeriod = 0
                 /\ ~valid
              THEN Ended([orch EXCEPT !.u = @ + 1,
                                      !.errors[orch.u + 1] =
                                          [where |-> "validation", kind |-> "auth"]],
                         "failed")
         ELSE [orch EXCEPT !.u = @ + 1, !.pc = "unit"]
    /\ UNCHANGED <<controller, tenantDomains>>

\* The processing of the unit is over, with error e or with none.
UnitEnds(e) ==
    /\ orch.pc = "unit"
    /\ e.where # "validation"
    /\ orch' =
         IF e # NoError /\ Reaches(e) /\ UnitCatch(orch.scanType, e) = "rethrow"
         THEN Ended([orch EXCEPT !.errors[orch.u] = e], "failed")
         ELSE [orch EXCEPT !.errors[orch.u] = e, !.pc = "loop"]
    /\ UNCHANGED <<controller, tenantDomains>>

\* The Stop button.
OrchStop ==
    /\ orch.scanning
    /\ ~controller.stop
    /\ controller' = [controller EXCEPT !.stop = TRUE]
    /\ UNCHANGED <<orch, tenantDomains>>

InitOrchestrator ==
    /\ GatewayIdle
    /\ QueueIdle
    /\ BatchIdle
    /\ ClassifyIdle
    /\ ScanIdle
    /\ ListingIdle
    /\ OrchIdle
    /\ PathIdle
    /\ RunIdle
    /\ DomainLoadIdle

oframe == <<gvars, qvars, requests, results, bgp, bhist, permission,
            sharingFilter, verdict, svars, listing, path, run, domainLoad>>

NextOrchestrator ==
    \/ \E t \in {"sharepoint", "onedrive"}, n \in 0..MaxScanUnits :
          ScanRequest(t, n) /\ UNCHANGED oframe
    \/ DomainsLoaded /\ UNCHANGED oframe
    \/ \E valid \in BOOLEAN : UnitBegins(valid) /\ UNCHANGED oframe
    \/ \E e \in UnitErrors(orch.scanType) \cup {NoError} :
          UnitEnds(e) /\ UNCHANGED oframe
    \/ OrchStop /\ UNCHANGED oframe

SpecOrchestrator == InitOrchestrator /\ [][NextOrchestrator]_vars

\* The same, with progress: loadTenantDomains answers (it catches its
\* errors) and the processing of a unit ends, as every remote request does;
\* the loop head runs when it is reached.  Clicks are up to the user.
OrchDomains == DomainsLoaded /\ UNCHANGED oframe

OrchUnitBegins == \E valid \in BOOLEAN : UnitBegins(valid) /\ UNCHANGED oframe

OrchUnitEnds ==
    \E e \in UnitErrors(orch.scanType) \cup {NoError} : UnitEnds(e) /\ UNCHANGED oframe

NextOrchestratorLive ==
    \/ \E t \in {"sharepoint", "onedrive"}, n \in 0..MaxScanUnits :
          ScanRequest(t, n) /\ UNCHANGED oframe
    \/ OrchDomains
    \/ OrchUnitBegins
    \/ OrchUnitEnds
    \/ OrchStop /\ UNCHANGED oframe

SpecOrchestratorLive ==
    /\ InitOrchestrator
    /\ [][NextOrchestratorLive]_vars
    /\ WF_vars(OrchDomains)
    /\ WF_vars(OrchUnitBegins)
    /\ WF_vars(OrchUnitEnds)

IsPrefix(s, t) == Len(s) <= Len(t) /\ SubSeq(t, 1, Len(s)) = s

Reportable ==
    {i \in 1..Len(container) :
        Interesting(container[i].permissions, tenantDomains, sharingFilter) # <<>>}

\* C28: no item has two ScanResults, every ScanResult has a grant that
\* passes the filter, and a scan of the drive that ran to its end without a
\* stop or a failed request has a ScanResult for every item the walk lists
\* that has such a grant.
C28_ExactlyOnce ==
    /\ \A m, n \in 1..Len(found) : found[m].itemId = found[n].itemId => m = n
    /\ \A n \in 1..Len(found) : found[n].permissions # <<>>
    /\ (scan.pc = "done" /\ ~controller.stop /\ shist.faults = 0
        /\ shist.strategyA # "none") =>
          \A i \in Reportable :
              Walked(container, scanSettings, i) =>
                  \E n \in 1..Len(found) : found[n].itemId = i

(***************************************************************************)
(* Path formatting: formatItemPath, used by the walk, and the synthesis    *)
(* written out in processEnhancedDeltaItems.  A string is the sequence of  *)
(* its symbols: the separator "/" and the words between separators         *)
(* ("drive", "drives", "root:", a drive id, a folder or file name).        *)
(***************************************************************************)

\* The depth of the folder an item is in.
MaxDepth == 2

\* s.startsWith(prefix)
StartsWith(s, prefix) ==
    Len(s) >= Len(prefix) /\ SubSeq(s, 1, Len(prefix)) = prefix

\* s.replace(pattern, ''): the first occurrence of the literal is removed.
RECURSIVE RemoveFirst(_, _)
RemoveFirst(s, pattern) ==
    IF Len(s) < Len(pattern) THEN s
    ELSE IF StartsWith(s, pattern) THEN SubSeq(s, Len(pattern) + 1, Len(s))
    ELSE <<Head(s)>> \o RemoveFirst(Tail(s), pattern)

\* The symbols of s that precede its first "/".
RECURSIVE UpToSlash(_)
UpToSlash(s) ==
    IF s = <<>> \/ Head(s) = "/" THEN <<>> ELSE <<Head(s)>> \o UpToSlash(Tail(s))

\* s.replace(/^\/drives\/[^\/]+/, '')
RemoveDrivesPrefix(s) ==
    LET lead == <<"/", "drives", "/">>
        id == IF StartsWith(s, lead)
              THEN UpToSlash(SubSeq(s, Len(lead) + 1, Len(s))) ELSE <<>>
    IN  IF id = <<>> THEN s
        ELSE SubSeq(s, Len(lead) + Len(id) + 1, Len(s))

\* s.replace(/\/+/g, '/')
RECURSIVE CollapseSlashes(_)
CollapseSlashesNot(s) == s
CollapseSlashes(s) ==
    IF Len(s) < 2 THEN s
    ELSE IF Head(s) = "/" /\ Head(Tail(s)) = "/" THEN CollapseSlashes(Tail(s))
    ELSE <<Head(s)>> \o CollapseSlashes(Tail(s))

\* The two removals applied to the parent path.
CleanPath(parentPath) ==
    RemoveDrivesPrefix(RemoveFirst(parentPath, <<"/", "drive", "/", "root:">>))

\* The clean-up both syntheses end with.
CleanUp(itemPath) ==
    LET collapsed == CollapseSlashes(itemPath)
    IN  IF StartsWith(collapsed, <<"/">>) THEN collapsed ELSE <<"/">> \o collapsed

\* A string is truthy when it is present and not empty.
Truthy(str) == str.present /\ str.text # <<>>

\* formatItemPath(parentPath, itemName, driveName = 'Documents', scanType):
\* the default replaces an absent driveName, driveName || 'Documents' an
\* empty one.
formatItemPath(parentPath, itemName, driveName, scanType) ==
    LET drivePrefix == IF Truthy(driveName) THEN driveName.text
                       ELSE <<"Documents">>
        cleanPath == CleanPath(parentPath.text)
    IN  CleanUp(
          IF scanType = "onedrive"
          THEN IF Truthy(parentPath)
               THEN IF cleanPath # <<>> THEN cleanPath \o <<"/">> \o itemName
                    ELSE <<"/">> \o itemName
               ELSE <<"/">> \o itemName
          ELSE IF Truthy(parentPath)
               THEN IF cleanPath # <<>> /\ cleanPath # <<"/">>
                    THEN <<"/">> \o drivePrefix \o cleanPath \o <<"/">> \o itemName
                    ELSE <<"/">> \o drivePrefix \o <<"/">> \o itemName
               ELSE <<"/">> \o drivePrefix \o <<"/">> \o itemName)

\* The synthesis of processEnhancedDeltaItems, from item.parentReference?.path,
\* item.name and drive.name.
deltaItemPath(parentPath, itemName, driveName, scanType) ==
    LET driveText == IF Truthy(driveName) THEN driveName.text
                     ELSE <<"Documents">>
        parentText == CleanPath(parentPath.text)
    IN  CleanUp(
          IF scanType = "onedrive"
          THEN IF Truthy(parentPath)
               THEN IF parentText # <<>> THEN parentText \o <<"/">> \o itemName
                    ELSE <<"/">> \o itemName
               ELSE <<"/">> \o itemName
          ELSE IF Truthy(parentPath)
               THEN IF parentText # <<>> /\ parentText # <<"/">>
                    THEN <<"/">> \o driveText \o parentText \o <<"/">> \o itemName
                    ELSE <<"/">> \o driveText \o <<"/">> \o itemName
               ELSE <<"/">> \o driveText \o <<"/">> \o itemName)

\* The folder paths below the drive root, to a depth: "", "/A", "/A/B", ...
Segments == {"A", "B", "drives"}

RECURSIVE FolderPaths(_)
FolderPaths(depth) ==
    IF depth = 0 THEN {<<>>}
    ELSE FolderPaths(depth - 1)
         \cup {f \o <<"/", n>> : f \in FolderPaths(depth - 1), n \in Segments}

\* parentReference.path as the remote side gives it: absent, or the root
\* prefix in one of its two forms followed by the folder path, or by a
\* lone separator.
ParentPaths ==
    {Absent}
    \cup {Str(prefix \o rest) :
            prefix \in {<<"/", "drive", "/", "root:">>,
                        <<"/", "drives", "/", "id", "/", "root:">>},
            rest \in FolderPaths(MaxDepth) \cup {<<"/">>}}

DriveNames == {Absent, Str(<<>>), Str(<<"Documents">>), Str(<<"Shared">>)}

ItemNames == {<<"C.txt">>, <<"A">>}

InitPath ==
    /\ GatewayIdle
    /\ QueueIdle
    /\ BatchIdle
    /\ ClassifyIdle
    /\ ScanIdle
    /\ ListingIdle
    /\ OrchIdle
    /\ RunIdle
    /\ DomainLoadIdle
    /\ \E pp \in ParentPaths, n \in ItemNames, d \in DriveNames,
          t \in {"sharepoint", "onedrive"} :
          path = [parentPath |-> pp, itemName |-> n, driveName |-> d,
                  scanType |-> t, done |-> FALSE, itemPath |-> <<>>,
                  inlinePath |-> <<>>]

\* The item is found by the walk and by the delta pass: each makes its path.
FormatPath ==
    /\ ~path.done
    /\ path' = [path EXCEPT
          !.done = TRUE,
          !.itemPath = formatItemPath(path.parentPath, path.itemName,
                                      path.driveName, path.scanType),
          !.inlinePath = deltaItemPath(path.parentPath, path.itemName,
                                       path.driveName, path.scanType)]

NextPath ==
    \/ FormatPath /\ UNCHANGED <<gvars, qvars, bvars, cvars, svars, listing, orch, run,
                                 domainLoad>>

SpecPath == InitPath /\ [][NextPath]_vars

\* The drive display name that prefixes a SharePoint path.
DisplayName(driveName) ==
    IF Truthy(driveName) THEN driveName.text ELSE <<"Documents">>

\* C29: the path of C.txt in /drive/root:/A/B of the SharePoint drive
\* Documents is /Documents/A/B/C.txt; every path made starts with one
\* separator and has no two separators in a row; a SharePoint path has the
\* drive display name as its first segment; and the delta pass makes the
\* path formatItemPath makes.
C29_PathNormalized ==
    /\ formatItemPath(Str(<<"/", "drive", "/", "root:", "/", "A", "/", "B">>),
                      <<"C.txt">>, Str(<<"Documents">>), "sharepoint")
          = <<"/", "Documents", "/", "A", "/", "B", "/", "C.txt">>
    /\ path.done =>
          /\ Head(path.itemPath) = "/"
          /\ \A n \in 1..(Len(path.itemPath) - 1) :
                ~(path.itemPath[n] = "/" /\ path.itemPath[n + 1] = "/")
          /\ path.scanType = "sharepoint" =>
                StartsWith(path.itemPath,
                           <<"/">> \o DisplayName(path.driveName) \o <<"/">>)
          /\ path.inlinePath = path.itemPath

\* A OneDrive item whose parent path is the root prefix and a lone
\* separator: the synthesis yields two separators in a row before the
\* clean-up.
C29_Witness ==
    /\ path.done
    /\ path.scanType = "onedrive"
    /\ path.parentPath = Str(<<"/", "drive", "/", "root:", "/">>)
    /\ path.itemPath = <<"/">> \o path.itemName

(***************************************************************************)
(* loadTenantDomains.  The directory answers GET /domains with a list of   *)
(* records [id, isVerified, isDefault]; a name is the sequence of its      *)
(* symbols, as an email is, with "." and the words "onmicrosoft" and "com" *)
(* among them.                                                             *)
(***************************************************************************)
\* Records in the directory's list.
MaxDomains == 2

EndsWith(s, suffix) ==
    Len(s) >= Len(suffix) /\ SubSeq(s, Len(s) - Len(suffix) + 1, Len(s)) = suffix

\* s.includes(ch)
Includes(s, ch) == \E k \in 1..Len(s) : s[k] = ch

\* s.trim(): the blanks at both ends removed.
RECURSIVE trim(_)
trim(s) ==
    IF s = <<>> THEN s
    ELSE IF Head(s) = " " THEN trim(Tail(s))
    ELSE IF s[Len(s)] = " " THEN trim(SubSeq(s, 1, Len(s) - 1))
    ELSE s

OnMicrosoft == <<".", "onmicrosoft", ".", "com">>

\* domain.isVerified === true && domain.isDefault !== false
PassesStrictValidation(d) == d.isVerified /\ d.isDefault # "false"

\* The try block (lines 270-326), given the list the directory answered
\* with: the set it builds, which it returns unless it is empty.
BuiltDomains(directory, username) ==
    LET records == {directory[k] : k \in 1..Len(directory)}
        strict == {n \in {trim(toLowerCase(d.id)) :
                             d \in {r \in records : PassesStrictValidation(r)}} :
                     n # <<>> /\ Includes(n, ".")}
        onMicrosoftDomains ==
            {trim(toLowerCase(d.id)) :
                d \in {r \in records : /\ EndsWith(toLowerCase(r.id), OnMicrosoft)
                                       /\ r.isVerified}}
        tenant == strict \cup onMicrosoftDomains
        primaryDomain == IF username.present THEN SplitAt1(username.text) ELSE <<>>
        matchingDomain ==
            \E d \in records :
                /\ toLowerCase(d.id) = toLowerCase(primaryDomain)
                /\ (d.isVerified \/ EndsWith(toLowerCase(d.id), OnMicrosoft))
    IN  IF /\ Truthy(username)
           /\ primaryDomain # <<>>
           /\ toLowerCase(primaryDomain) \notin tenant
           /\ matchingDomain
        THEN tenant \cup {toLowerCase(primaryDomain)}
        ELSE tenant

\* The catch block (lines 328-345): the domain of the signed-in account.
FallbackDomains(username) ==
    IF Truthy(username) /\ SplitAt1(username.text) # <<>>
    THEN {toLowerCase(SplitAt1(username.text))}
    ELSE {}

\* loadTenantDomains(): the request throws, or the set built is empty and
\* the function throws itself: then the catch block answers.
loadTenantDomains(directory, username, fails) ==
    IF fails \/ BuiltDomains(directory, username) = {}
    THEN FallbackDomains(username)
    ELSE BuiltDomains(directory, username)

DomainIds ==
    {<<"C", ".", "com">>, <<"g", ".", "com">>,
     <<"g", ".", "onmicrosoft", ".", "com">>}

DomainRecords ==
    [id : DomainIds, isVerified : BOOLEAN, isDefault : {"true", "false", "absent"}]

\* The directory's lists, of MaxDomains records at most.
RECURSIVE Directories(_)
Directories(n) ==
    IF n = 0 THEN {<<>>}
    ELSE Directories(n - 1)
         \cup {Append(l, d) : l \in {x \in Directories(n - 1) : Len(x) = n - 1},
                              d \in DomainRecords}

Usernames ==
    {Absent, Str(<<"a", "@", "C", ".", "com">>), Str(<<"a", "@", "g", ".", "com">>),
     Str(<<"a", "@", "g", ".", "onmicrosoft", ".", "com">>)}

InitDomains ==
    /\ GatewayIdle
    /\ QueueIdle
    /\ BatchIdle
    /\ ClassifyIdle
    /\ ScanIdle
    /\ ListingIdle
    /\ OrchIdle
    /\ PathIdle
    /\ RunIdle
    /\ \E dir \in Directories(MaxDomains), u \in Usernames, f \in BOOLEAN :
          domainLoad = [directory |-> dir, username |-> u, fails |-> f,
                        done |-> FALSE, result |-> {}]

\* The scan function awaits loadTenantDomains().
LoadDomains ==
    /\ ~domainLoad.done
    /\ domainLoad' = [domainLoad EXCEPT
          !.done = TRUE,
          !.result = loadTenantDomains(domainLoad.directory, domainLoad.username,
                                       domainLoad.fails)]

NextDomains ==
    \/ LoadDomains /\ UNCHANGED <<gvars, qvars, bvars, cvars, svars, listing, orch,
                                  path, run>>

SpecDomains == InitDomains /\ [][NextDomains]_vars

\* The directory's verified domains, lower-cased.
VerifiedDomains(directory) ==
    {toLowerCase(directory[k].id) :
        k \in {j \in 1..Len(directory) : directory[j].isVerified}}

\* C40: the set returned holds lower-cased names and is the set of the
\* directory's verified domains: every member is verified and every
\* verified domain is a member, whether the try block or the catch block
\* answered.
C40_MatchesVerifiedDomains ==
    domainLoad.done =>
        /\ \A n \in domainLoad.result : toLowerCase(n) = n
        /\ domainLoad.result = VerifiedDomains(domainLoad.directory)

(***************************************************************************)
(* Claims about the progress of the queue.                                 *)
(***************************************************************************)
Settled(u) == unit[u] \in {"resolved", "rejected"}

InWindow(c) == c.pc = "wait" /\ c.clears /\ now < c.wake

\* C30: a throttled request sets the resume time to the end of its own wait;
\* while any such request is still waiting, so before the resume time it
\* set, no step starts a queued unit.
C30_WindowNeverShortened ==
    [][Len(admitted') > Len(admitted)
          => \A u \in DOMAIN calls : ~InWindow(calls[u])]_vars

\* C35: the throttle flag does not outlast the wait of the response that
\* set it: whenever the flag is set, a throttled call is in that wait, at
\* the end of which it clears the flag.
C35_FlagClearedAfterWait ==
    throttle.isThrottled =>
        \E id \in DOMAIN calls : calls[id].pc = "wait" /\ calls[id].clears

\* C39: no call sends a request with an empty bearer token: a call that
\* waited on a refresh that failed throws instead of going on with the
\* token the failure left.
C39_NoEmptyTokenSent ==
    \A id \in DOMAIN calls : ~calls[id].emptySent

(***************************************************************************)
(* Claims about the walk.                                                  *)
(***************************************************************************)

\* A descent is in flight from its call to its return.
InFlight(g) == walk[g].stage \notin {"idle", "returned"}

\* C21: the descents queued by one folder run in batches of at most
\* recursionBatchSize: at most that many are in flight at once, and no
\* descent beyond the batch being awaited has started.
C21_BatchesOfThree ==
    \A f \in DOMAIN walk :
        /\ Cardinality({g \in RecursionTasks(walk, f, container) : InFlight(g)})
              <= recursionBatchSize
        /\ \A n \in 1..Len(TaskSeq(walk, f, container)) :
              n > walk[f].i + recursionBatchSize =>
                  walk[TaskSeq(walk, f, container)[n]].stage = "idle"

C31_NoTaskOutlivesScan ==
    scan.pc = "done" => \A g \in DOMAIN walk : ~InFlight(g)

\* C32: a run starts with the flag not stopped, and once a run that was
\* stopped is over and the next has started, the descents of the stopped
\* run begin no permission fetch and push no result.
C32_StopScopedToRun ==
    [][/\ run'.k > run.k => ~controller'.stop
       /\ (run.k > 1 /\ run.stopped) =>
             /\ \A f \in DOMAIN walk :
                   walk[f].stage # "permissions" => walk'[f].stage # "permissions"
             /\ found' = found]_vars

\* The children of folder g have been asked for and have arrived.
Visited(g) == walk[g].stage \notin {"idle", "children"}

\* C36: unless the scan is stopped or a request fails, the walk comes to a
\* point where the root and every folder that passes the exclusion filters,
\* as its ancestors do, has had its children fetched, whatever grants the
\* folder or its ancestors carry.
C36_EveryFolderVisited ==
    <>(\/ controller.stop
       \/ shist.faults > 0
       \/ /\ Visited(0)
          /\ \A g \in 1..Len(container) :
                (container[g].folder /\ Walked(container, scanSettings, g))
                    => Visited(g))

\* The folder under a folder that carries an anonymous link has been
\* descended into, in a walk neither stopped nor met by a failure.
C36_Witness ==
    /\ ~controller.stop
    /\ shist.faults = 0
    /\ container[1].permissions = <<AnonymousLink>>
    /\ container[5].folder
    /\ walk[5].stage = "returned"
    /\ Len(found) > 0

\* C37: the walk terminates: from some point on no call of
\* traverseFolderEnhanced is in flight and the scan of the drive is done.
C37_WalkTerminates ==
    <>[](scan.pc = "done" /\ \A g \in DOMAIN walk : ~InFlight(g))

\* The walk has ended on the stop flag, with descents that returned at
\* their entry.
C37_Witness ==
    /\ scan.pc = "done"
    /\ controller.stop
    /\ \A g \in DOMAIN walk : ~InFlight(g)
    /\ \E g \in DOMAIN walk : walk[g].stage = "returned" /\ walk[g].results = <<>>
    /\ found # <<>>

(***************************************************************************)
(* Claims about the orchestrators.                                         *)
(***************************************************************************)

\* C25: a scan request made while a scan is running returns at the guard:
\* it leaves the controller, the tenant domains and the running scan's
\* activation as they are, so no second invocation gets past the guard.
C25_OverlapIsNoOp ==
    [][(orch.scanning /\ orch'.requests # orch.requests) =>
          /\ orch' = [orch EXCEPT !.requests = @ + 1]
          /\ controller' = controller
          /\ tenantDomains' = tenantDomains]_vars

\* A request was turned away while the running scan, already stopped, was
\* still processing a unit.
C25_Witness ==
    /\ orch.scanning
    /\ orch.pc = "unit"
    /\ orch.requests > orch.past
    /\ controller.stop

\* C26: an authentication-expiry error that arose while unit k was
\* processed aborts the scan at that unit: the scan has ended as failed and
\* no later unit was begun.
C26_AuthErrorAborts ==
    \A k \in 1..orch.units :
        orch.errors[k].kind = "auth" =>
            /\ orch.pc = "done"
            /\ orch.outcome = "failed"
            /\ orch.u = k

\* C27: a failure other than an authentication expiry never ends the scan
\* as failed, and a scan that met no authentication expiry and was not
\* stopped ends with every unit processed.
C27_OtherErrorsSkipped ==
    /\ \A k \in 1..orch.units :
          orch.errors[k].kind = "other" =>
              ~(orch.pc = "done" /\ orch.outcome = "failed" /\ orch.u = k)
    /\ (/\ orch.pc = "done"
        /\ ~controller.stop
        /\ \A k \in 1..orch.units : orch.errors[k].kind # "auth") =>
          /\ orch.outcome # "failed"
          /\ orch.u = orch.units

\* A OneDrive scan of two users or more completed although the drive of
\* the first user could not be resolved.
C27_Witness ==
    /\ orch.scanType = "onedrive"
    /\ orch.pc = "done"
    /\ orch.outcome = "completed"
    /\ orch.units > 1
    /\ orch.errors[1] = [where |-> "resolution", kind |-> "other"]

\* C34 as claimed: a scan that has ended ended as completed, stopped or
\* failed, with the in-progress flag cleared.
C34_AsClaimed ==
    orch.pc = "done" =>
        /\ orch.outcome \in {"completed", "stopped", "failed"}
        /\ ~orch.scanning

\* C34: every scan that passed the guard ends and clears the in-progress
\* flag; it ends as completed, stopped or failed, or, a OneDrive scan with
\* no user selected, by returning before the loop; and a scan request made
\* when no scan is in progress passes the guard.
C34_EndsAndClears ==
    /\ orch.scanning ~> ~orch.scanning
    /\ [](orch.pc = "done" =>
            /\ ~orch.scanning
            /\ orch.outcome \in {"completed", "stopped", "failed", "returned"}
            /\ orch.outcome = "returned" =>
                  (orch.scanType = "onedrive" /\ orch.units = 0 /\ ~controller.stop))
    /\ [][(~orch.scanning /\ orch'.requests > orch.requests) => orch'.scanning]_vars

\* A second scan was accepted and has ended as failed.
C34_Witness ==
    /\ orch.pc = "done"
    /\ orch.outcome = "failed"
    /\ ~orch.scanning
    /\ orch.past = 2

====
